---- MODULE Spec2Model ----
(***************************************************************************)
(* Verification model of the binary protocol engine of                     *)
(* appium-ios-remotexpc: the instrumentation (DTX) channel engine, the     *)
(* fragment reassembler, the frame codecs, the NSKeyedArchiver decoder and *)
(* the file-conduit (AFC) engine.                                          *)
(*                                                                         *)
(* Each component is a group of variables with its own initial predicate,  *)
(* its own actions and its own specification; a component that a           *)
(* specification does not exercise stays in its idle state.                *)
(***************************************************************************)
EXTENDS Integers, Sequences, FiniteSets, TLC

VARIABLES
    \* ---- DVTSecureSocketProxyService (dvt/index.ts) ----
    connection,           \* this.connection !== null
    socket,               \* this.socket !== null
    isHandshakeComplete,  \* this.isHandshakeComplete
    lastChannelCode,      \* this.lastChannelCode
    curMessageId,         \* this.curMessageId
    channelCache,         \* this.channelCache : identifier -> Channel
    channelMessages,      \* this.channelMessages : code -> ChannelFragmenter
    sent,                 \* every message handed to socket.write, in order
    nextObject,           \* number of objects allocated with `new` so far
    ret,                  \* outcome of the last public call
    returned,             \* history: Channel returned for an identifier on this connection
    allocLog,             \* history: channel codes allocated by makeChannel, in order
    lastReply,            \* history: what the last call read as the reply to its message
    \* ---- ChannelFragmenter (dvt/channel-fragmenter.ts) ----
    messages,             \* this.messages : completed messages, oldest first
    packetData,           \* this.packetData : accumulator of regular channels
    streamPacketData,     \* this.streamPacketData : accumulator of stream channels
    cur,                  \* the message being fed: header fields and payload so far
    completed,            \* history: payloads of the messages fed completely
    popped,               \* history: the messages get() has returned
    lastGet,              \* result of the last get() and what was owed before it
    \* ---- frame codecs (dvt/dtx-message.ts, afc/codec.ts) ----
    codecIn,              \* the header given to the encoder
    codecBytes,           \* the encoded bytes
    codecOut,             \* the header the decoder returned
    codecPc,              \* "input", "encoded", "decoded"
    \* ---- NSKeyedArchiverDecoder (dvt/nskeyedarchiver-decoder.ts) ----
    arObjects,            \* this.objects : the $objects table (index 0 first)
    arTop,                \* this.archive.$top.root
    arDepth,              \* depth at which the root is decoded
    arResult,             \* what decoding returned, with the decoder's final state
    arPc,                 \* "input", "decoded"
    \* ---- AfcService.stat (afc/index.ts) ----
    statIn,               \* the device's reply to GET_FILE_INFO
    statOut,              \* what stat returned or that it raised
    statPc,               \* "input", "done"
    \* ---- AfcService file operations against a device (afc/index.ts) ----
    afcFs,                \* the device's files: path -> S_IFDIR / S_IFREG
    afcDenied,            \* paths whose removal the device refuses
    afcLog,               \* requests of the current operation, with the replies' status
    afcCall,              \* the current (or last) operation and its arguments
    afcRet,               \* what the last operation returned or that it raised
    afcBefore,            \* the device's files when the operation started
    afcPc,                \* "idle", "writing", "failed", "closing"
    \* ---- AfcService packet transport (afc/index.ts, afc/constants.ts) ----
    afcPacketNum,         \* this.packetNum
    afcSocket,            \* this.socket: its connection, usable or not, handshake done or not
    afcWire,              \* history: the packets handed to sendAfcPacket, in order
    afcReplies,           \* number of response frames received on the socket and not read yet
    afcOwed,              \* written requests the device has not answered yet
    afcConsumed,          \* history: number of responses readAfcResponse has returned
    afcOp,                \* the operation in progress (or the last one) and its outcome
    \* ---- Channel.call (dvt/channel.ts) ----
    callName,             \* the methodName given to call()
    callSent,             \* the selector handed to sendMessage
    callPc,               \* "input", "sent"
    \* ---- recvMessage / recvPacketFragments (dvt/index.ts) ----
    muxWire,              \* bytes the device has sent that no read has consumed yet
    muxSending,           \* the device's message in progress on each signed channel code
    muxStarted,           \* number of messages the device has started
    muxChannels,          \* this.channelMessages with the reassemblers' contents
    muxMessageId,         \* this.curMessageId
    muxExpected,          \* history: the complete messages sent, per absolute channel code
    muxDelivered,         \* history: the messages recvMessage returned, per channel
    muxPending,           \* <<channel>> of the recvMessage suspended in a read, else << >>
    muxRet,               \* outcome of the last recvMessage
    \* ---- readExact (dvt/index.ts, afc/codec.ts) ----
    rdEngine,             \* which engine's readExact: "dvt" or "afc"
    rdSent,               \* number of bytes the device has written
    rdInFlight,           \* chunks written that the socket has not emitted yet
    rdBuffer,             \* this.readBuffer / the socket state's buffer
    rdListening,          \* the socket events the engine has a listener on
    rdFlowing,            \* the socket emits 'data' (a listener was attached once)
    rdHasSocket,          \* this.socket !== null
    rdLine,               \* the socket: "up", "ending" (closed by the engine), "down"
    rdResults,            \* history: the results of the reads, concatenated
    rdRet,                \* the last read: its size and how it stands
    rdLost,               \* history: bytes emitted while the engine had no listener
    rdClosedPending,      \* history: close() was called while a read was suspended
    rdConnected,          \* history: this.readBuffer when connect() last got its socket
    \* ---- sendAfcPacket / _dispatch (afc/constants.ts, afc/index.ts) ----
    sndPacketNum,         \* this.packetNum
    sndSocket,            \* the bytes handed to socket.write, in order
    sndCallbacks,         \* the callbacks of the writes that have not run yet, oldest first
    sndDispatched,        \* history: the packets dispatched, number and payload
    sndResolved,          \* history: the numbers of the packets whose send has resolved
    \* ---- readExact of the file conduit with several callers (afc/constants.ts) ----
    wtSent,               \* number of bytes the device has written
    wtInFlight,           \* chunks written that the socket has not emitted yet
    wtBuffer,             \* state.buffer
    wtWaiters,            \* state.waiters: the call and the size of each, oldest first
    wtCalls,              \* number of readExact calls made
    wtDelivered,          \* history: the call and the bytes of each read that returned
    wtRejected,           \* history: the calls whose timer rejected them
    \* ---- makeChannel calls that overlap (dvt/index.ts) ----
    mcCalls,              \* history: the makeChannel calls that went past the cache test
    \* ---- drainBufferedMessages (dvt/index.ts) ----
    drInput,              \* history: the bytes buffered when the handshake completed
    drBuffer,             \* this.readBuffer
    drPc,                 \* "buffered", "drained"
    \* ---- parseAuxiliaryData (dvt/index.ts) ----
    auxItems,             \* the tagged items the device put in the auxiliary section
    auxBuffer,            \* the auxiliary section recvMessage cut out of the packet
    auxRet,               \* what recvMessage made of it
    auxPc,                \* "input" or "args", "received" or "built", "parsed"
    auxArgs,              \* MessageAux.values handed to buildAuxiliaryData
    \* ---- fread / fwrite / read and write streams (afc/index.ts, afc/stream-utils.ts) ----
    stCall,               \* the call: its kind, handle, size, data and chunkSize
    stPc,                 \* "loop", "await" (a response is awaited), "done"
    stLoop,               \* the locals of the loop: left, toRead, offset, end
    stPacketNum,          \* this.packetNum
    stPackets,            \* history: the packets sent, header and payload
    stResponses,          \* history: the { status, data } of the responses received
    stRet                 \* how the call ended, and the buffer fread returned

dvtVars == <<connection, socket, isHandshakeComplete, lastChannelCode,
             curMessageId, channelCache, channelMessages, sent, nextObject,
             ret, returned, allocLog, lastReply>>

fragVars == <<messages, packetData, streamPacketData, cur, completed, popped,
              lastGet>>

codecVars == <<codecIn, codecBytes, codecOut, codecPc>>

archiveVars == <<arObjects, arTop, arDepth, arResult, arPc>>

statVars == <<statIn, statOut, statPc>>

afcVars == <<afcFs, afcDenied, afcLog, afcCall, afcRet, afcBefore, afcPc>>

wireVars == <<afcPacketNum, afcSocket, afcWire, afcReplies, afcOwed, afcConsumed,
              afcOp>>

callVars == <<callName, callSent, callPc>>

muxVars == <<muxWire, muxSending, muxStarted, muxChannels, muxMessageId, muxExpected,
             muxDelivered, muxPending, muxRet>>

\* The components added after the file operations
readVars == <<rdEngine, rdSent, rdInFlight, rdBuffer, rdListening, rdFlowing,
              rdHasSocket, rdLine, rdResults, rdRet, rdLost, rdClosedPending,
             rdConnected>>

auxVars == <<auxItems, auxBuffer, auxRet, auxPc, auxArgs>>

\* The components added after the exact-length reads
streamVars == <<stCall, stPc, stLoop, stPacketNum, stPackets, stResponses, stRet>>

sendVars == <<sndPacketNum, sndSocket, sndCallbacks, sndDispatched, sndResolved>>

waitVars == <<wtSent, wtInFlight, wtBuffer, wtWaiters, wtCalls, wtDelivered, wtRejected>>

overlapVars == <<mcCalls>>

drainVars == <<drInput, drBuffer, drPc>>

lateVars == <<sendVars, waitVars, overlapVars, drainVars>>

moreVars == <<auxVars, streamVars, lateVars>>

ioVars == <<wireVars, callVars, muxVars, readVars, moreVars>>

vars == <<dvtVars, fragVars, codecVars, archiveVars, statVars, afcVars, ioVars>>

None == "none"

(***************************************************************************)
(* Bounds of the model.                                                    *)
(***************************************************************************)
MaxCode == 4          \* makeChannel cache misses explored
MaxSent == 7          \* messages written to the socket explored

MaxMessages == 2      \* messages fed to one reassembler
MaxFragments == 3     \* fragments of one message
MaxChunks == 2        \* WRITE packets of one write operation
MaxCalls == 16        \* decodeObject calls allowed to one decode of a table
MIN_ERROR_DESCRIPTION_LENGTH == 20
MaxPackets == 3       \* packets one AfcService dispatches
MaxConnections == 2   \* connections one AfcService opens
MaxName == 4          \* characters of a method name
MaxStream == 2        \* messages the device sends to the receiver
MaxBytes == 4         \* bytes the device writes to a socket that is read

Identifiers == {"svcA", "svcB"}

(***************************************************************************)
(* Instrumentation engine                                                  *)
(***************************************************************************)
BROADCAST_CHANNEL == 0

HandshakeSelector == "_notifyOfPublishedCapabilities:"
RequestChannelSelector == "_requestChannelWithCode:identifier:"
ChannelCanceledSelector == "_channelCanceled:"

\* No Channel object (codes and object numbers of real channels are positive).
NoChannel == [code |-> 0, oid |-> 0]

\* new Channel(channelCode, this)
NewChannel(code, oid) == [code |-> code, oid |-> oid]

\* The message sendMessage composes; identifier is the incremented curMessageId.
Message(channel, selector, args, expectsReply) ==
    [channel |-> channel, selector |-> selector, args |-> args,
     expectsReply |-> expectsReply, identifier |-> curMessageId + 1,
     fragmentId |-> 0, fragmentCount |-> 1]

\* sendMessage up to and including socket.write
SendMessage(channel, selector, args, expectsReply) ==
    /\ curMessageId' = curMessageId + 1
    /\ sent' = Append(sent, Message(channel, selector, args, expectsReply))

\* recvPacketFragments: a header for a code without a reassembler creates one.
\* seen is the set of absolute channel codes of the headers read by one receive.
LazyFragmenters(cm, seen, firstOid) ==
    LET fresh == seen \ DOMAIN cm
        \* objects are numbered in increasing code order within one receive
        Rank(c) == Cardinality({d \in fresh : d < c})
    IN  [c \in DOMAIN cm \cup fresh |->
            IF c \in DOMAIN cm THEN cm[c] ELSE firstOid + Rank(c)]

SeenSets == {{}, {0, 2}}

\* What a call read: io says whether the write and the read went through,
\* seen is the set of absolute channel codes of the headers it read.
\* A handshake reply has a selector (None when none can be extracted) and the
\* auxiliary list; a decoded channel reply is null or an object with its
\* property names and its $objects table (empty when it has none).
NoDvtReply ==
    [io |-> "none", selector |-> None, aux |-> << >>, object |-> FALSE,
     props |-> {}, objects |-> << >>, seen |-> {}]
IoFailure(io) == [NoDvtReply EXCEPT !.io = io]
HandshakeReply(selector, aux) ==
    [NoDvtReply EXCEPT !.io = "read", !.selector = selector, !.aux = aux]
ChannelReply(props, objects) ==
    [NoDvtReply EXCEPT !.io = "read", !.object = TRUE, !.props = props,
                       !.objects = objects]
NullReply == [NoDvtReply EXCEPT !.io = "read"]
\* Entries of an object table: an object with its property names, or a string
ObjectEntry(props) == [object |-> TRUE, props |-> props, text |-> "", length |-> 0]
StringEntry(text, length) == [object |-> FALSE, props |-> {}, text |-> text, length |-> length]

HandshakeReplies ==
    { IoFailure("writeFail"), IoFailure("readFail"),
      HandshakeReply(HandshakeSelector, <<"capabilities">>),
      HandshakeReply(HandshakeSelector, << >>),
      HandshakeReply("_other:", <<"capabilities">>),
      HandshakeReply(None, <<"capabilities">>) }

\* performHandshake after the reply was read: the error it raises, or "ok"
HandshakeCheckSelectorOnly(r) ==
    IF r.selector = None THEN "invalid"
    ELSE IF r.selector # HandshakeSelector THEN "badSelector"
    ELSE "ok"
HandshakeCheck(r) ==
    IF r.selector = None THEN "invalid"
    ELSE IF r.selector # HandshakeSelector THEN "badSelector"
    ELSE IF Len(r.aux) = 0 THEN "noAux"
    ELSE "ok"

\* hasNSErrorIndicators
ErrorProps == {"NSCode", "NSUserInfo", "NSDomain"}
HasNSErrorIndicators(obj) == obj.object /\ obj.props \cap ErrorProps # {}

\* extractNSKeyedArchiverObjects: the table, or none (<< >>)
ExtractNSKeyedArchiverObjects(data) ==
    IF data.object /\ Len(data.objects) > 0 /\ Len(data.objects) > 1
    THEN data.objects ELSE << >>

\* checkForNSError: the detail of the error it raises, or None
CheckForNSErrorNever(response) == None
CheckForNSError(response) ==
    IF ~response.object THEN None
    ELSE LET objects == ExtractNSKeyedArchiverObjects(response)
             long == {i \in 1..Len(objects) :
                        ~objects[i].object
                        /\ objects[i].length > MIN_ERROR_DESCRIPTION_LENGTH}
         IN  IF \E i \in 1..Len(objects) : HasNSErrorIndicators(objects[i])
             THEN IF long # {}
                  THEN objects[CHOOSE i \in long : \A j \in long : i <= j].text
                  ELSE "Unknown error"
             ELSE IF HasNSErrorIndicators(response) THEN "JSON.stringify(response)"
             ELSE None

ChannelReplies ==
    { IoFailure("writeFail"), IoFailure("readFail"), NullReply,
      ChannelReply({"NSDomain", "NSCode"}, << >>),
      ChannelReply({"$archiver"},
                   <<StringEntry("$null", 5), ObjectEntry({"NSUserInfo"}),
                     StringEntry("The channel could not be created", 32)>>),
      ChannelReply({"$archiver"}, <<StringEntry("$null", 5), ObjectEntry({"NSCode"})>>),
      ChannelReply({"$archiver"}, <<StringEntry("$null", 5), ObjectEntry({"name"})>>),
      ChannelReply({"$archiver"}, <<ObjectEntry({"NSCode"})>>) }

\* makeChannel after sendMessage: the error it raises, or "ok"
ChannelCheck(r) ==
    IF r.io # "read" THEN r.io
    ELSE IF CheckForNSError(r) # None THEN "nsError"
    ELSE "ok"

DvtInit ==
    /\ connection = FALSE
    /\ socket = FALSE
    /\ isHandshakeComplete = FALSE
    /\ lastChannelCode = 0
    /\ curMessageId = 0
    /\ channelCache = << >>
    /\ channelMessages = (BROADCAST_CHANNEL :> 0)
    /\ sent = << >>
    /\ nextObject = 1
    /\ ret = [op |-> "init", id |-> None, kind |-> "return", val |-> None,
              from |-> None]
    /\ returned = [i \in Identifiers |-> NoChannel]
    /\ allocLog = << >>
    /\ lastReply = NoDvtReply

\* Outcome of a call: the value returned (from says which return statement of
\* makeChannel produced it) or the error raised.
Return(op, id, val, from) ==
    [op |-> op, id |-> id, kind |-> "return", val |-> val, from |-> from]
Raise(op, id, why) ==
    [op |-> op, id |-> id, kind |-> "raise", val |-> why, from |-> None]

\* makeChannel: this.channelCache.has(identifier)
CacheHitNever(identifier) == FALSE
CacheHit(identifier) == identifier \in DOMAIN channelCache

\* makeChannel: this.lastChannelCode++; const channelCode = this.lastChannelCode
NextChannelCodeReused == IF lastChannelCode = 0 THEN 1 ELSE lastChannelCode
NextChannelCode == lastChannelCode + 1

\* connect(): outcome is what the transport and the device do.
Connect ==
    \/ /\ connection                       \* already connected: return
       /\ ret' = Return("connect", None, None, None)
       /\ lastReply' = NoDvtReply
       /\ UNCHANGED <<connection, socket, isHandshakeComplete, lastChannelCode,
                      curMessageId, channelCache, channelMessages, sent,
                      nextObject, returned, allocLog>>
    \/ /\ ~connection                      \* startLockdownWithoutCheckin rejects
       /\ ret' = Raise("connect", None, "lockdown")
       /\ lastReply' = NoDvtReply
       /\ UNCHANGED <<connection, socket, isHandshakeComplete, lastChannelCode,
                      curMessageId, channelCache, channelMessages, sent,
                      nextObject, returned, allocLog>>
    \/ /\ ~connection
       /\ Len(sent) < MaxSent
       /\ connection' = TRUE
       /\ socket' = TRUE
       /\ SendMessage(BROADCAST_CHANNEL, HandshakeSelector, <<"capabilities">>, FALSE)
       /\ \E r \in HandshakeReplies, seen \in SeenSets :
            \E outcome \in {IF r.io # "read" THEN r.io ELSE HandshakeCheck(r)} :
                /\ r.io = "writeFail" => seen = {}    \* nothing is read
                /\ lastReply' = [r EXCEPT !.seen = seen]
                /\ channelMessages' =
                     IF outcome = "writeFail" THEN channelMessages
                     ELSE LazyFragmenters(channelMessages, seen, nextObject)
                /\ nextObject' =
                     IF outcome = "writeFail" THEN nextObject
                     ELSE nextObject + Cardinality(seen \ DOMAIN channelMessages)
                /\ isHandshakeComplete' = (outcome = "ok")
                /\ ret' = IF outcome = "ok" THEN Return("connect", None, None, None)
                          ELSE Raise("connect", None, outcome)
       /\ UNCHANGED <<lastChannelCode, channelCache, returned, allocLog>>

\* makeChannel(identifier), run to completion without another call in between.
MakeChannel(identifier) ==
    \/ /\ ~isHandshakeComplete
       /\ ret' = Raise("makeChannel", identifier, "handshake")
       /\ lastReply' = NoDvtReply
       /\ UNCHANGED <<connection, socket, isHandshakeComplete, lastChannelCode,
                      curMessageId, channelCache, channelMessages, sent,
                      nextObject, returned, allocLog>>
    \/ /\ isHandshakeComplete
       /\ CacheHit(identifier)
       /\ ret' = Return("makeChannel", identifier, channelCache[identifier], "cache")
       /\ returned' = [returned EXCEPT ![identifier] = channelCache[identifier]]
       /\ lastReply' = NoDvtReply
       /\ UNCHANGED <<connection, socket, isHandshakeComplete, lastChannelCode,
                      curMessageId, channelCache, channelMessages, sent,
                      nextObject, allocLog>>
    \/ /\ isHandshakeComplete
       /\ ~CacheHit(identifier)
       /\ lastChannelCode < MaxCode
       /\ Len(sent) < MaxSent
       /\ lastChannelCode' = NextChannelCode
       /\ allocLog' = Append(allocLog, NextChannelCode)
       /\ SendMessage(BROADCAST_CHANNEL, RequestChannelSelector,
                      <<NextChannelCode, identifier>>, TRUE)
       /\ \E r \in ChannelReplies, seen \in SeenSets : \E outcome \in {ChannelCheck(r)} :
            LET afterRecv == IF outcome = "writeFail" THEN channelMessages
                             ELSE LazyFragmenters(channelMessages, seen, nextObject)
                created == IF outcome = "writeFail" THEN 0
                           ELSE Cardinality(seen \ DOMAIN channelMessages)
                channel == NewChannel(NextChannelCode, nextObject + created)
            IN  /\ r.io = "writeFail" => seen = {}    \* nothing is read
                /\ lastReply' = [r EXCEPT !.seen = seen]
                /\ IF outcome = "ok"
                   THEN /\ channelCache' =
                             [i \in DOMAIN channelCache \cup {identifier} |->
                                 IF i = identifier THEN channel ELSE channelCache[i]]
                        /\ channelMessages' =
                             [c \in DOMAIN afterRecv \cup {NextChannelCode} |->
                                 IF c = NextChannelCode
                                 THEN nextObject + created + 1 ELSE afterRecv[c]]
                        /\ nextObject' = nextObject + created + 2
                        /\ ret' = Return("makeChannel", identifier, channel, "new")
                        /\ returned' = [returned EXCEPT ![identifier] = channel]
                   ELSE /\ channelCache' = channelCache
                        /\ channelMessages' = afterRecv
                        /\ nextObject' = nextObject + created
                        /\ ret' = Raise("makeChannel", identifier, outcome)
                        /\ returned' = returned
       /\ UNCHANGED <<connection, socket, isHandshakeComplete>>

\* close: the keys of channelMessages that are > 0
ActiveCodesAll(cm) == DOMAIN cm
ActiveCodes(cm) == {c \in DOMAIN cm : c > 0}

\* close()
Close ==
    \/ /\ ~connection
       /\ ret' = Return("close", None, None, None)
       /\ lastReply' = NoDvtReply
       /\ UNCHANGED <<connection, socket, isHandshakeComplete, lastChannelCode,
                      curMessageId, channelCache, channelMessages, sent,
                      nextObject, returned, allocLog>>
    \/ /\ connection
       /\ Len(sent) < MaxSent
       /\ \E io \in {"written", "writeFail"} :
            IF ActiveCodes(channelMessages) # {}
            THEN /\ SendMessage(BROADCAST_CHANNEL, ChannelCanceledSelector,
                                ActiveCodes(channelMessages), FALSE)
                 \* catch (error) { log.debug(...) }
                 /\ lastReply' = IoFailure(io)
            ELSE /\ io = "written"
                 /\ lastReply' = NoDvtReply
                 /\ UNCHANGED <<curMessageId, sent>>
       /\ connection' = FALSE
       /\ socket' = FALSE
       /\ isHandshakeComplete' = FALSE
       /\ channelCache' = << >>
       /\ channelMessages' = (BROADCAST_CHANNEL :> nextObject)
       /\ nextObject' = nextObject + 1
       /\ ret' = Return("close", None, None, None)
       /\ returned' = [i \in Identifiers |-> NoChannel]
       /\ UNCHANGED <<lastChannelCode, allocLog>>


(***************************************************************************)
(* Fragment reassembler                                                    *)
(***************************************************************************)
\* Payload chunks of the fragments fed (byte sequences).
Chunks == {<< >>, <<1>>, <<2, 3>>}

\* Signed channel codes on the wire: regular (>= 0) and stream (< 0).
WireChannelCodes == {-1, 0, 2}

NoMessage == [channelCode |-> 0, fragmentCount |-> 0, fragmentId |-> 0,
              payload |-> << >>]

FragInit ==
    /\ messages = << >>
    /\ packetData = << >>
    /\ streamPacketData = << >>
    /\ cur = NoMessage
    /\ completed = << >>
    /\ popped = << >>
    /\ lastGet = [isNone |-> TRUE, result |-> << >>, owed |-> 0]

\* addFragment: header.fragmentId === header.fragmentCount - 1
IsFinalFragmentOffByOne(header) == header.fragmentId = header.fragmentCount
IsFinalFragment(header) == header.fragmentId = header.fragmentCount - 1

\* ChannelFragmenter.addFragment(header, chunk)
AddFragment(header, chunk) ==
    IF header.channelCode >= 0
    THEN /\ IF IsFinalFragment(header)
            THEN /\ messages' = Append(messages, packetData \o chunk)
                 /\ packetData' = << >>
            ELSE /\ packetData' = packetData \o chunk
                 /\ messages' = messages
         /\ UNCHANGED streamPacketData
    ELSE /\ IF IsFinalFragment(header)
            THEN /\ messages' = Append(messages, streamPacketData \o chunk)
                 /\ streamPacketData' = << >>
            ELSE /\ streamPacketData' = streamPacketData \o chunk
                 /\ messages' = messages
         /\ UNCHANGED packetData

\* The sender starts a message of fragmentCount fragments on a channel code.
BeginMessage ==
    /\ cur.fragmentId = cur.fragmentCount
    /\ Len(completed) < MaxMessages
    /\ \E code \in WireChannelCodes, count \in 1..MaxFragments :
          cur' = [channelCode |-> code, fragmentCount |-> count,
                  fragmentId |-> 0, payload |-> << >>]
    /\ UNCHANGED <<messages, packetData, streamPacketData, completed, popped,
                   lastGet>>

\* The next fragment of the current message, in order, reaches addFragment.
Feed ==
    /\ cur.fragmentId < cur.fragmentCount
    /\ \E chunk \in Chunks :
          /\ AddFragment([channelCode |-> cur.channelCode,
                          fragmentId |-> cur.fragmentId,
                          fragmentCount |-> cur.fragmentCount], chunk)
          /\ cur' = [cur EXCEPT !.fragmentId = @ + 1, !.payload = @ \o chunk]
          /\ completed' = IF cur.fragmentId = cur.fragmentCount - 1
                          THEN Append(completed, cur.payload \o chunk)
                          ELSE completed
    /\ UNCHANGED <<popped, lastGet>>

\* ChannelFragmenter.get(): this.messages.shift() || null (a Buffer is truthy)
Get ==
    /\ IF messages = << >>
       THEN /\ lastGet' = [isNone |-> TRUE, result |-> << >>,
                           owed |-> Len(completed) - Len(popped)]
            /\ UNCHANGED <<messages, popped>>
       ELSE /\ lastGet' = [isNone |-> FALSE, result |-> Head(messages),
                           owed |-> Len(completed) - Len(popped)]
            /\ messages' = Tail(messages)
            /\ popped' = Append(popped, Head(messages))
    /\ UNCHANGED <<packetData, streamPacketData, cur, completed>>


(***************************************************************************)
(* Frame codecs                                                            *)
(***************************************************************************)
RECURSIVE WriteUIntLE(_, _)
\* Buffer.writeUInt16LE / writeUInt32LE / writeBigUInt64LE / writeInt32LE:
\* the n low-order bytes of value, least significant first (two's complement
\* for a negative value: \div rounds down and % is non-negative).
WriteUIntLE(value, n) ==
    IF n = 0 THEN << >> ELSE <<value % 256>> \o WriteUIntLE(value \div 256, n - 1)

RECURSIVE ReadUIntLE(_, _, _)
\* Buffer.readUInt16LE / readUInt32LE / readBigUInt64LE at a 0-based offset
ReadUIntLE(buffer, offset, n) ==
    IF n = 0 THEN 0
    ELSE buffer[offset + 1] + 256 * ReadUIntLE(buffer, offset + 1, n - 1)

\* Buffer.readInt32LE: the top byte is sign-extended
ReadInt32LE(buffer, offset) ==
    LET last == buffer[offset + 4]
    IN  ReadUIntLE(buffer, offset, 3)
          + 16777216 * (IF last >= 128 THEN last - 256 ELSE last)

WriteUInt16BE(value) == <<(value \div 256) % 256, value % 256>>
WriteUInt16LE(value) == WriteUIntLE(value, 2)

MESSAGE_HEADER_MAGIC == 524114809      \* 0x1f3d5b79
MESSAGE_HEADER_SIZE == 32
PAYLOAD_HEADER_SIZE == 16
INSTRUMENTS_MESSAGE_TYPE == 2
EXPECTS_REPLY_MASK == 4096             \* 0x1000

\* DTXMessage.buildMessageHeader
BuildMessageHeader(header) ==
    WriteUIntLE(header.magic, 4) \o WriteUIntLE(header.cb, 4)
      \o WriteUInt16LE(header.fragmentId) \o WriteUInt16LE(header.fragmentCount)
      \o WriteUIntLE(header.length, 4) \o WriteUIntLE(header.identifier, 4)
      \o WriteUIntLE(header.conversationIndex, 4)
      \o WriteUIntLE(header.channelCode, 4)
      \o WriteUIntLE(header.expectsReply, 4)

Thrown == [thrown |-> TRUE]

\* DTXMessage.parseMessageHeader
ParseMessageHeader(buffer) ==
    IF Len(buffer) < MESSAGE_HEADER_SIZE THEN Thrown
    ELSE [kind |-> "message",
          magic |-> ReadUIntLE(buffer, 0, 4),
          cb |-> ReadUIntLE(buffer, 4, 4),
          fragmentId |-> ReadUIntLE(buffer, 8, 2),
          fragmentCount |-> ReadUIntLE(buffer, 10, 2),
          length |-> ReadUIntLE(buffer, 12, 4),
          identifier |-> ReadUIntLE(buffer, 16, 4),
          conversationIndex |-> ReadUIntLE(buffer, 20, 4),
          channelCode |-> ReadInt32LE(buffer, 24),
          expectsReply |-> ReadUIntLE(buffer, 28, 4)]

\* DTXMessage.buildPayloadHeader
BuildPayloadHeader(header) ==
    WriteUIntLE(header.flags, 4) \o WriteUIntLE(header.auxiliaryLength, 4)
      \o WriteUIntLE(header.totalLength, 8)

\* DTXMessage.parsePayloadHeader
ParsePayloadHeader(buffer) ==
    IF Len(buffer) < PAYLOAD_HEADER_SIZE THEN Thrown
    ELSE [kind |-> "payload",
          flags |-> ReadUIntLE(buffer, 0, 4),
          auxiliaryLength |-> ReadUIntLE(buffer, 4, 4),
          totalLength |-> ReadUIntLE(buffer, 8, 8)]

AFCMAGIC == <<67, 70, 65, 54, 76, 80, 65, 65>>       \* 'CFA6LPAA'
AFC_HEADER_SIZE == 40
AFC_WRITE_THIS_LENGTH == 48

\* An optional argument: << >> when omitted, <<v>> when given.
Omitted == << >>

\* A reading of the override as the entire-length of the packet
EncodeHeaderEntireOverride(op, packetNum, payloadLen, thisLenOverride) ==
    LET len == IF thisLenOverride = Omitted
               THEN AFC_HEADER_SIZE + payloadLen ELSE thisLenOverride[1]
    IN  AFCMAGIC \o WriteUIntLE(len, 8) \o WriteUIntLE(len, 8)
          \o WriteUIntLE(packetNum, 8) \o WriteUIntLE(op, 8)

\* encodeHeader(op, packetNum, payloadLen, thisLenOverride)
EncodeHeader(op, packetNum, payloadLen, thisLenOverride) ==
    LET entireLen == AFC_HEADER_SIZE + payloadLen
        thisLen == IF thisLenOverride = Omitted
                   THEN AFC_HEADER_SIZE + payloadLen ELSE thisLenOverride[1]
    IN  AFCMAGIC \o WriteUIntLE(entireLen, 8) \o WriteUIntLE(thisLen, 8)
          \o WriteUIntLE(packetNum, 8) \o WriteUIntLE(op, 8)

\* readAfcHeader on the 40 bytes readExact delivered
ReadAfcHeader(buf) ==
    LET magic == SubSeq(buf, 1, 8)
    IN  IF magic # AFCMAGIC THEN Thrown
        ELSE [kind |-> "afc",
              magic |-> magic,
              entireLength |-> ReadUIntLE(buf, 8, 8),
              thisLength |-> ReadUIntLE(buf, 16, 8),
              packetNum |-> ReadUIntLE(buf, 24, 8),
              operation |-> ReadUIntLE(buf, 32, 8)]

\* In-range sample values of the header fields.
UInt16Samples == {0, 1, 258, 65535}
UInt32Samples == {0, 258, 2147483647}
Int32Samples == {-2147483647, -2, 0, 3, 2147483647}
UInt64Samples == {0, 65536, 2147483647}

MessageHeaders ==
    [kind : {"message"}, magic : {MESSAGE_HEADER_MAGIC, 0},
     cb : {MESSAGE_HEADER_SIZE}, fragmentId : UInt16Samples,
     fragmentCount : {1, 65535}, length : UInt32Samples,
     identifier : {1, 16777216}, conversationIndex : {0, 1},
     channelCode : Int32Samples, expectsReply : {0, 1}]

PayloadHeaders ==
    [kind : {"payload"},
     flags : {0, INSTRUMENTS_MESSAGE_TYPE,
              INSTRUMENTS_MESSAGE_TYPE + EXPECTS_REPLY_MASK, 2147483647},
     auxiliaryLength : UInt32Samples, totalLength : UInt64Samples]

AfcOpcodes == {1, 3, 8, 16}      \* STATUS, READ_DIR, REMOVE_PATH, WRITE

AfcHeaderInputs ==
    [kind : {"afc"}, op : AfcOpcodes, packetNum : UInt64Samples,
     payloadLen : {0, 9, 65536}, thisLenOverride : {Omitted, <<0>>, <<AFC_WRITE_THIS_LENGTH>>}]

CodecIdle ==
    /\ codecIn = [kind |-> "none"]
    /\ codecBytes = << >>
    /\ codecOut = [kind |-> "none"]
    /\ codecPc = "idle"

CodecInit ==
    /\ codecIn \in MessageHeaders \cup PayloadHeaders \cup AfcHeaderInputs
    /\ codecBytes = << >>
    /\ codecOut = [kind |-> "none"]
    /\ codecPc = "input"

EncodeMessageHeader ==
    /\ codecPc = "input" /\ codecIn.kind = "message"
    /\ codecBytes' = BuildMessageHeader(codecIn)
    /\ codecPc' = "encoded"
    /\ UNCHANGED <<codecIn, codecOut>>

EncodePayloadHeader ==
    /\ codecPc = "input" /\ codecIn.kind = "payload"
    /\ codecBytes' = BuildPayloadHeader(codecIn)
    /\ codecPc' = "encoded"
    /\ UNCHANGED <<codecIn, codecOut>>

EncodeAfcHeader ==
    /\ codecPc = "input" /\ codecIn.kind = "afc"
    /\ codecBytes' = EncodeHeader(codecIn.op, codecIn.packetNum,
                                  codecIn.payloadLen, codecIn.thisLenOverride)
    /\ codecPc' = "encoded"
    /\ UNCHANGED <<codecIn, codecOut>>

DecodeHeader ==
    /\ codecPc = "encoded"
    /\ codecOut' = CASE codecIn.kind = "message" -> ParseMessageHeader(codecBytes)
                     [] codecIn.kind = "payload" -> ParsePayloadHeader(codecBytes)
                     [] codecIn.kind = "afc" -> ReadAfcHeader(codecBytes)
    /\ codecPc' = "decoded"
    /\ UNCHANGED <<codecIn, codecBytes>>


(***************************************************************************)
(* Archive decoder                                                         *)
(***************************************************************************)
MAX_DECODE_DEPTH == 1000

\* JavaScript values: table entries, references and decoded results.
Null == [t |-> "null"]                       \* '$null' / null
Undefined == [t |-> "undefined"]
Str(s) == [t |-> "str", v |-> s]
Num(n) == [t |-> "num", v |-> n]
Uid(i) == [t |-> "uid", uid |-> i]           \* { CF$UID: i }
Dict(keys, objs) == [t |-> "dict", keys |-> keys, objs |-> objs]
Array(objs) == [t |-> "array", objs |-> objs]
Object(fields) == [t |-> "object", fields |-> fields]
Field(k, v) == [k |-> k, v |-> v]
JsArray(items) == [t |-> "jsarray", items |-> items]
JsObject(pairs) == [t |-> "jsobject", pairs |-> pairs]

\* typeof x === 'object' && x (a table entry that is a non-null object)
IsObjectEntry(e) == e.t \in {"uid", "dict", "array", "object"}

\* result[key] = value on a JavaScript object: overwrite in place or append
Put(pairs, k, v) ==
    IF \E i \in 1..Len(pairs) : pairs[i].k = k
    THEN [i \in 1..Len(pairs) |-> IF pairs[i].k = k THEN Field(k, v) ELSE pairs[i]]
    ELSE Append(pairs, Field(k, v))

\* The decoder's mutable state threaded through the recursion: this.decoded,
\* the number of decodeObject calls, whether the call budget ran out, and a
\* log of every decodeObject call and every object-field reference; memo is
\* FALSE only in the decoder the memoized one is compared with, which applies
\* the same rules and never looks into this.decoded.
NewDecoder == [cache |-> << >>, calls |-> 0, diverged |-> FALSE, log |-> << >>,
               memo |-> TRUE]
Out(val, st) == [val |-> val, st |-> st]

\* this.decoded.set(index, result)
Memo(index, r) ==
    Out(r.val,
        [r.st EXCEPT !.cache = [i \in DOMAIN r.st.cache \cup {index} |->
                                   IF i = index THEN r.val ELSE r.st.cache[i]]])

\* decodeObject: depth > MAX_DECODE_DEPTH
DepthExceededNever(depth) == FALSE
DepthExceeded(depth) == depth > MAX_DECODE_DEPTH

\* decodeObject: visited.has(index)
VisitedHas(visited, index) == index \in visited

LogCall(r, index, visited, depth, len) ==
    Out(r.val,
        [r.st EXCEPT !.log = Append(@,
            [kind |-> "call", index |-> index, depth |-> depth,
             open |-> index.t = "num" /\ index.v \in visited,
             outOfRange |-> index.t = "num" /\ (index.v < 0 \/ index.v >= len),
             val |-> r.val])])

LogField(r, value, visited) ==
    Out(r.val,
        [r.st EXCEPT !.log = Append(@,
            [kind |-> "field", index |-> value, depth |-> 0,
             open |-> value.t = "uid" /\ value.uid \in visited,
             outOfRange |-> FALSE,
             val |-> r.val])])

RECURSIVE DecodeObject(_, _, _, _, _)
RECURSIVE DecodeArrayFrom(_, _, _, _, _, _, _)
RECURSIVE DecodeDictionaryFrom(_, _, _, _, _, _, _, _)
RECURSIVE DecodeFieldsFrom(_, _, _, _, _, _, _)

\* decodeArray(refs, visited, depth): refs.map(...)
DecodeArrayFrom(objects, refs, i, visited, depth, st, acc) ==
    IF i > Len(refs) THEN Out(JsArray(acc), st)
    ELSE LET ref == refs[i]
             r == IF ref.t = "num"
                  THEN DecodeObject(objects, ref, visited, depth + 1, st)
                  ELSE IF ref.t = "uid"
                  THEN DecodeObject(objects, Num(ref.uid), visited, depth + 1, st)
                  ELSE Out(ref, st)
         IN  DecodeArrayFrom(objects, refs, i + 1, visited, depth, r.st,
                             Append(acc, r.val))

DecodeArray(objects, refs, visited, depth, st) ==
    DecodeArrayFrom(objects, refs, 1, visited, depth, st, << >>)

\* decodeDictionary(keyRefs, valueRefs, visited, depth): the references are
\* handed to decodeObject as they are
DecodeDictionaryFrom(objects, keyRefs, valueRefs, i, visited, depth, st, acc) ==
    IF i > Len(keyRefs) \/ i > Len(valueRefs) THEN Out(JsObject(acc), st)
    ELSE LET key == DecodeObject(objects, keyRefs[i], visited, depth + 1, st)
             value == DecodeObject(objects, valueRefs[i], visited, depth + 1, key.st)
         IN  DecodeDictionaryFrom(objects, keyRefs, valueRefs, i + 1, visited,
                                  depth, value.st,
                                  IF key.val.t = "str"
                                  THEN Put(acc, key.val.v, value.val) ELSE acc)

DecodeDictionary(objects, keyRefs, valueRefs, visited, depth, st) ==
    DecodeDictionaryFrom(objects, keyRefs, valueRefs, 1, visited, depth, st, << >>)

\* decodeObject, regular object: for (const [key, value] of Object.entries(obj))
DecodeFieldsFrom(objects, fields, i, visited, depth, st, acc) ==
    IF i > Len(fields) THEN Out(JsObject(acc), st)
    ELSE LET key == fields[i].k
             value == fields[i].v
             r == IF value.t = "num"
                  THEN IF /\ value.v < Len(objects)
                          /\ value.v >= 0
                          /\ IsObjectEntry(objects[value.v + 1])
                          /\ ~VisitedHas(visited, value.v)
                       THEN DecodeObject(objects, value, visited, depth + 1, st)
                       ELSE Out(value, st)
                  ELSE IF value.t = "uid"
                  THEN IF ~VisitedHas(visited, value.uid)
                       THEN DecodeObject(objects, Num(value.uid), visited, depth + 1, st)
                       ELSE Out(value, st)
                  ELSE Out(value, st)
             logged == LogField(r, value, visited)
         IN  IF key = "$class"
             THEN DecodeFieldsFrom(objects, fields, i + 1, visited, depth, st, acc)
             ELSE DecodeFieldsFrom(objects, fields, i + 1, visited, depth,
                                   logged.st, Put(acc, key, r.val))

\* decodeObject(index, visited, depth)
DecodeObject(objects, index, visited, depth, st) ==
    IF st.calls >= MaxCalls THEN Out(Undefined, [st EXCEPT !.diverged = TRUE])
    ELSE
    LET st1 == [st EXCEPT !.calls = @ + 1]
        r == IF DepthExceeded(depth) THEN Out(Null, st1)
             ELSE IF index.t # "num" THEN Out(Undefined, st1)
             ELSE IF index.v < 0 \/ index.v >= Len(objects) THEN Out(Null, st1)
             ELSE IF VisitedHas(visited, index.v) THEN Out(Null, st1)
             ELSE IF st1.memo /\ index.v \in DOMAIN st1.cache
                  THEN Out(st1.cache[index.v], st1)
             ELSE LET obj == objects[index.v + 1]
                      open == visited \cup {index.v}
                  IN  CASE obj.t = "null" -> Out(Null, st1)
                        [] obj.t \in {"str", "num"} -> Out(obj, st1)
                        [] obj.t = "uid" ->
                             DecodeObject(objects, Num(obj.uid), open, depth + 1, st1)
                        [] obj.t = "dict" ->
                             Memo(index.v, DecodeDictionary(objects, obj.keys,
                                                            obj.objs, open, depth, st1))
                        [] obj.t = "array" ->
                             Memo(index.v, DecodeArray(objects, obj.objs, open,
                                                       depth, st1))
                        [] obj.t = "object" ->
                             Memo(index.v, DecodeFieldsFrom(objects, obj.fields, 1,
                                                            open, depth, st1, << >>))
    IN  LogCall(r, index, visited, depth, Len(objects))

\* $top.root when absent
NoRoot == [t |-> "absent"]

\* decode(), with the depth of the root call made a parameter
Decode(objects, top, depth) ==
    IF Len(objects) = 0 THEN Out(Null, NewDecoder)
    ELSE IF top.t = "num" THEN DecodeObject(objects, top, {}, depth, NewDecoder)
    ELSE IF top.t = "uid" THEN DecodeObject(objects, Num(top.uid), {}, depth, NewDecoder)
    ELSE DecodeObject(objects, Num(1), {}, depth, NewDecoder)

\* Entries a table of four objects is drawn from; index 0 is the null marker.
ArchiveEntries ==
    { Str("k"), Str("v"), Null,
      Uid(1), Uid(2), Uid(3), Uid(4),
      Array(<<Num(2), Uid(3)>>), Array(<<Uid(1), Num(4), Num(2), Num(2)>>),
      Dict(<<Num(2)>>, <<Num(3)>>), Dict(<<Uid(2)>>, <<Uid(3)>>),
      Dict(<<Num(3), Num(2), Num(3)>>, <<Num(1), Num(3)>>),
      Object(<<Field("$class", Uid(3)), Field("a", Uid(1)), Field("b", Num(3))>>),
      Object(<<Field("a", Uid(3)), Field("b", Num(7)), Field("c", Str("x"))>>) }

ArchiveTables == {<<Null, a, b, c>> : a, b, c \in ArchiveEntries}

\* Root reference and depth of the root call.
ArchiveRoots ==
    { <<Num(1), 0>>, <<Uid(2), 0>>, <<NoRoot, 0>>,
      <<Num(1), MAX_DECODE_DEPTH - 1>>, <<Num(1), MAX_DECODE_DEPTH>> }

ArchiveIdle ==
    /\ arObjects = << >>
    /\ arTop = NoRoot
    /\ arDepth = 0
    /\ arResult = Out(Null, NewDecoder)
    /\ arPc = "idle"

ArchiveInit ==
    /\ arObjects \in ArchiveTables
    /\ \E root \in ArchiveRoots : arTop = root[1] /\ arDepth = root[2]
    /\ arResult = Out(Null, NewDecoder)
    /\ arPc = "input"

DecodeArchive ==
    /\ arPc = "input"
    /\ arResult' = Decode(arObjects, arTop, arDepth)
    /\ arPc' = "decoded"
    /\ UNCHANGED <<arObjects, arTop, arDepth>>


(***************************************************************************)
(* File conduit: stat                                                      *)
(***************************************************************************)
\* JavaScript strings that are parsed are sequences of characters; typed
\* values carry their type.
Typed(t, v) == [t |-> t, v |-> v]
Returned(v) == [thrown |-> FALSE, v |-> v]

Digits == <<"0", "1", "2", "3", "4", "5", "6", "7", "8", "9">>
IsDigit(c) == \E i \in 1..Len(Digits) : Digits[i] = c
AllDigits(s) == \A i \in 1..Len(s) : IsDigit(s[i])

RECURSIVE DecimalValue(_)
DecimalValue(s) ==
    IF s = << >> THEN 0
    ELSE DecimalValue(SubSeq(s, 1, Len(s) - 1)) * 10
         + ((CHOOSE i \in 1..Len(Digits) : Digits[i] = s[Len(s)]) - 1)

\* kv.key : the value, or undefined
Lookup(pairs, k) ==
    IF \E i \in 1..Len(pairs) : pairs[i].k = k
    THEN pairs[CHOOSE i \in 1..Len(pairs) : pairs[i].k = k].v
    ELSE Undefined

\* BigInt(x): a TypeError for undefined, a SyntaxError for a string that is
\* not an integer literal
ToBigInt(x) ==
    IF x.t # "string" THEN Thrown
    ELSE IF AllDigits(x.v) THEN Returned(DecimalValue(x.v))
    ELSE IF x.v[1] = "-" /\ Len(x.v) > 1 /\ AllDigits(Tail(x.v))
    THEN Returned(0 - DecimalValue(Tail(x.v)))
    ELSE Thrown

\* Number.parseInt(x, 10): the leading integer of the text, or NaN
ParseInt(x) ==
    IF x.t # "string" THEN Typed("NaN", 0)
    ELSE LET neg == x.v # << >> /\ x.v[1] = "-"
             body == IF neg THEN Tail(x.v) ELSE x.v
             n == CHOOSE n \in 0..Len(body) :
                      /\ \A i \in 1..n : IsDigit(body[i])
                      /\ n = Len(body) \/ ~IsDigit(body[n + 1])
             value == DecimalValue(SubSeq(body, 1, n))
         IN  IF n = 0 THEN Typed("NaN", 0)
             ELSE Typed("number", IF neg THEN 0 - value ELSE value)

\* nanosecondsToMilliseconds: Number(BigInt(ns) / 1000000n); BigInt division
\* truncates toward zero
NanosecondsToMilliseconds(nanoseconds) ==
    LET ns == ToBigInt(nanoseconds)
    IN  IF ns.thrown THEN Thrown
        ELSE Returned(IF ns.v >= 0 THEN ns.v \div 1000000
                      ELSE 0 - ((0 - ns.v) \div 1000000))

\* parseKeyValueNullList over the strings parseCStringArray split the reply into
RECURSIVE FromEntries(_, _, _)
FromEntries(arr, i, acc) ==
    IF 2 * i > Len(arr) THEN acc
    ELSE FromEntries(arr, i + 1, Put(acc, arr[2 * i - 1], Typed("string", arr[2 * i])))

ParseKeyValueNullList(arr) ==
    IF Len(arr) % 2 # 0 THEN Thrown ELSE Returned(FromEntries(arr, 1, << >>))

\* Names every plain object inherits, for which `k in out` is true
ObjectPrototypeKeys ==
    {"constructor", "hasOwnProperty", "isPrototypeOf", "propertyIsEnumerable",
     "toLocaleString", "toString", "valueOf", "__proto__"}

\* stat: k in out
InOutNever(k, out) == FALSE
InOut(k, out) ==
    \/ \E i \in 1..Len(out) : out[i].k = k
    \/ k \in ObjectPrototypeKeys

\* stat: for (const [k, v] of Object.entries(kv)) if (!(k in out)) out[k] = v
RECURSIVE PassThrough(_, _, _)
PassThrough(kv, i, out) ==
    IF i > Len(kv) THEN out
    ELSE PassThrough(kv, i + 1,
                     IF InOut(kv[i].k, out) THEN out
                     ELSE Put(out, kv[i].k, kv[i].v))

\* stat(filePath) given the device's reply to GET_FILE_INFO
Stat(reply) ==
    IF reply.status # "SUCCESS" THEN Thrown
    ELSE LET parsed == ParseKeyValueNullList(reply.strings)
             kv == parsed.v
             size == ToBigInt(Lookup(kv, "st_size"))
             mtime == NanosecondsToMilliseconds(Lookup(kv, "st_mtime"))
             birthtime == NanosecondsToMilliseconds(Lookup(kv, "st_birthtime"))
         IN  IF parsed.thrown THEN Thrown
             ELSE IF size.thrown \/ mtime.thrown \/ birthtime.thrown THEN Thrown
             ELSE Returned(PassThrough(kv, 1,
                     << Field("st_size", Typed("bigint", size.v)),
                        Field("st_blocks", ParseInt(Lookup(kv, "st_blocks"))),
                        Field("st_mtime", Typed("date", mtime.v)),
                        Field("st_birthtime", Typed("date", birthtime.v)),
                        Field("st_nlink", ParseInt(Lookup(kv, "st_nlink"))) >>))

\* Decimal texts with the integer they denote and that integer divided by
\* 1,000,000 as BigInt division gives it.
DecimalSamples ==
    { [text |-> <<"0">>, value |-> 0, ms |-> 0],
      [text |-> <<"4", "0", "9", "6">>, value |-> 4096, ms |-> 0],
      [text |-> <<"9", "9", "9", "9", "9", "9">>, value |-> 999999, ms |-> 0],
      [text |-> <<"1", "0", "0", "0", "0", "0", "0">>, value |-> 1000000, ms |-> 1],
      [text |-> <<"2", "1", "4", "7", "4", "8", "3", "6", "4", "7">>,
       value |-> 2147483647, ms |-> 2147],
      [text |-> <<"-", "1">>, value |-> -1, ms |-> 0] }

\* A key the reply does not carry, and a text that is no number.
Missing == [text |-> <<"(missing)">>, value |-> 0, ms |-> 0]
NotDecimal == [text |-> <<"1", "2", "x">>, value |-> 0, ms |-> 0]

Entry(k, sample) == IF sample = Missing THEN << >> ELSE <<k, sample.text>>

\* The reply's strings, in the order the device lists them.
ReplyStrings(in) ==
    Entry("st_size", in.size) \o <<"st_blocks", <<"8">>>>
    \o <<"st_nlink", <<"1">>>> \o <<"st_ifmt", <<in.ifmt>>>>
    \o Entry("st_mtime", in.mtime) \o Entry("st_birthtime", in.birthtime)
    \o (IF in.extra = "" THEN << >> ELSE <<in.extra, <<"x">>>>)

StatReplies ==
    [ status : {"SUCCESS", "OBJECT_NOT_FOUND"},
      size : DecimalSamples \cup {Missing, NotDecimal},
      mtime : DecimalSamples \cup {Missing},
      birthtime : {s \in DecimalSamples : s.value \in {0, 1000000}} \cup {Missing},
      ifmt : {"S_IFDIR", "S_IFREG"},
      extra : {"", "LinkTarget", "toString"} ]

NoReply ==
    [status |-> "SUCCESS", size |-> Missing, mtime |-> Missing,
     birthtime |-> Missing, ifmt |-> "S_IFREG", extra |-> ""]

StatIdle ==
    /\ statIn = NoReply
    /\ statOut = Thrown
    /\ statPc = "idle"

StatInit ==
    /\ statIn \in StatReplies
    /\ statOut = Thrown
    /\ statPc = "input"

StatFile ==
    /\ statPc = "input"
    /\ statOut' = Stat([status |-> statIn.status, strings |-> ReplyStrings(statIn)])
    /\ statPc' = "done"
    /\ UNCHANGED statIn


(***************************************************************************)
(* File conduit: rm and the write operations, against a device             *)
(***************************************************************************)
\* Paths are sequences of names; path.posix.join(filePath, entry) appends.
IsFileName(name) == name \in {"f", "g"}
PathUniverse ==
    { <<"d">>, <<"d", "e">>, <<"d", "f">>, <<"d", "s">>,
      <<"d", "s", "g">>, <<"d", "s", "t">> }
Parent(path) == SubSeq(path, 1, Len(path) - 1)
Under(dir, path) == Len(path) >= Len(dir) /\ SubSeq(path, 1, Len(dir)) = dir
ChildNames(fs, dir) ==
    {path[Len(path)] : path \in {q \in DOMAIN fs : Len(q) = Len(dir) + 1 /\ Under(dir, q)}}

\* The device: a request is logged with the status of its reply.
Device(fs, log) == [fs |-> fs, log |-> log]
Sent(dev, op, path, status, fs) ==
    Device(fs, Append(dev.log, [op |-> op, path |-> path, status |-> status]))

\* Device reply to GET_FILE_INFO
GetFileInfo(dev, path) ==
    IF path \in DOMAIN dev.fs
    THEN [dev |-> Sent(dev, "GET_FILE_INFO", path, "SUCCESS", dev.fs),
          reply |-> [status |-> "SUCCESS",
                     strings |-> ReplyStrings(
                         [size |-> [text |-> <<"0">>, value |-> 0, ms |-> 0],
                          mtime |-> [text |-> <<"0">>, value |-> 0, ms |-> 0],
                          birthtime |-> [text |-> <<"0">>, value |-> 0, ms |-> 0],
                          ifmt |-> dev.fs[path], extra |-> ""])]]
    ELSE [dev |-> Sent(dev, "GET_FILE_INFO", path, "OBJECT_NOT_FOUND", dev.fs),
          reply |-> [status |-> "OBJECT_NOT_FOUND", strings |-> << >>]]

\* Device status for REMOVE_PATH
RemoveStatus(fs, denied, path) ==
    IF path \notin DOMAIN fs THEN "OBJECT_NOT_FOUND"
    ELSE IF ChildNames(fs, path) # {} THEN "DIR_NOT_EMPTY"
    ELSE IF path \in denied THEN "PERM_DENIED"
    ELSE "SUCCESS"

Without(fs, path) == [q \in DOMAIN fs \ {path} |-> fs[q]]

\* Order in which the device lists names
NameOrder == <<"e", "f", "g", "s", "t">>
NON_LISTABLE_ENTRIES == {"", ".", ".."}

\* listdir(dirPath): READ_DIR, then the entries without '', '.', '..'
Listdir(dev, dirPath) ==
    LET names == ChildNames(dev.fs, dirPath)
        raw == <<".", "..">> \o SelectSeq(NameOrder, LAMBDA n : n \in names)
        isDir == dirPath \in DOMAIN dev.fs /\ dev.fs[dirPath] = "S_IFDIR"
    IN  IF isDir
        THEN [dev |-> Sent(dev, "READ_DIR", dirPath, "SUCCESS", dev.fs),
              thrown |-> FALSE,
              entries |-> SelectSeq(raw, LAMBDA x : x \notin NON_LISTABLE_ENTRIES)]
        ELSE [dev |-> Sent(dev, "READ_DIR", dirPath, "READ_ERROR", dev.fs),
              thrown |-> TRUE, entries |-> << >>]

\* isdir: st.st_ifmt === AfcFileMode.S_IFDIR
IsDirModeNever(st) == FALSE
IsDirMode(st) == Lookup(st, "st_ifmt") = Typed("string", <<"S_IFDIR">>)

\* isdir(filePath)
IsDir(dev, filePath) ==
    LET info == GetFileInfo(dev, filePath)
        st == Stat(info.reply)
    IN  [dev |-> info.dev, thrown |-> st.thrown,
         val |-> ~st.thrown /\ IsDirMode(st.v)]

\* exists(filePath)
Exists(dev, filePath) ==
    LET info == GetFileInfo(dev, filePath)
    IN  [dev |-> info.dev, val |-> ~Stat(info.reply).thrown]

\* A reading of force as success: a forced removal that failed returns true
RmSingleForcedIsTrue(dev, denied, filePath, force) ==
    LET status == RemoveStatus(dev.fs, denied, filePath)
        fs == IF status = "SUCCESS" THEN Without(dev.fs, filePath) ELSE dev.fs
    IN  [dev |-> Sent(dev, "REMOVE_PATH", filePath, status, fs),
         val |-> status = "SUCCESS" \/ force,
         thrown |-> status # "SUCCESS" /\ ~force]

\* rmSingle(filePath, force)
RmSingle(dev, denied, filePath, force) ==
    LET status == RemoveStatus(dev.fs, denied, filePath)
        fs == IF status = "SUCCESS" THEN Without(dev.fs, filePath) ELSE dev.fs
    IN  [dev |-> Sent(dev, "REMOVE_PATH", filePath, status, fs),
         val |-> status = "SUCCESS",
         thrown |-> status # "SUCCESS" /\ ~force]

\* rm: return force ? [] : [filePath]
NotFoundResultSwapped(filePath, force) == IF force THEN <<filePath>> ELSE << >>
NotFoundResult(filePath, force) == IF force THEN << >> ELSE <<filePath>>

RmDone(dev, failed, thrown) == [dev |-> dev, failed |-> failed, thrown |-> thrown]

\* await: the awaited call has completed, with its effect on the device,
\* before the code after it runs
Await(call, After(_)) == CHOOSE result \in {After(done) : done \in {call}} : TRUE

\* A reading that raises whenever the last removal threw
FinalRemovalRethrown(dev, failedPaths, filePath) == RmDone(dev, << >>, TRUE)

\* rm: catch (err) around the removal of the directory itself
FinalRemovalThrew(dev, failedPaths, filePath) ==
    IF failedPaths # << >>
    THEN RmDone(dev, Append(failedPaths, filePath), FALSE)
    ELSE RmDone(dev, << >>, TRUE)

RECURSIVE Rm(_, _, _, _)
RECURSIVE RmEntries(_, _, _, _, _, _)

\* rm: for (const entry of await this.listdir(filePath))
RmEntries(dev, denied, filePath, entries, i, failedPaths) ==
    IF i > Len(entries) THEN RmDone(dev, failedPaths, FALSE)
    ELSE Await(IsDir(dev, Append(filePath, entries[i])), LAMBDA dir :
        IF dir.thrown THEN RmDone(dir.dev, failedPaths, TRUE)
        ELSE IF dir.val
        THEN Await(Rm(dir.dev, denied, Append(filePath, entries[i]), TRUE), LAMBDA sub :
                IF sub.thrown THEN sub
                ELSE RmEntries(sub.dev, denied, filePath, entries, i + 1,
                               failedPaths \o sub.failed))
        ELSE Await(RmSingle(dir.dev, denied, Append(filePath, entries[i]), TRUE),
                   LAMBDA one :
                RmEntries(one.dev, denied, filePath, entries, i + 1,
                          IF one.val THEN failedPaths
                          ELSE Append(failedPaths, Append(filePath, entries[i])))))

\* rm(filePath, force)
Rm(dev, denied, filePath, force) ==
    Await(Exists(dev, filePath), LAMBDA found :
    IF ~found.val THEN RmDone(found.dev, NotFoundResult(filePath, force), FALSE)
    ELSE Await(IsDir(found.dev, filePath), LAMBDA dir :
    IF dir.thrown THEN RmDone(dir.dev, << >>, TRUE)
    ELSE IF ~dir.val
    THEN Await(RmSingle(dir.dev, denied, filePath, force), LAMBDA one :
            RmDone(one.dev, IF one.val THEN << >> ELSE <<filePath>>, one.thrown))
    ELSE Await(Listdir(dir.dev, filePath), LAMBDA list :
    IF list.thrown THEN RmDone(list.dev, << >>, TRUE)
    ELSE Await(RmEntries(list.dev, denied, filePath, list.entries, 1, << >>),
               LAMBDA children :
    IF children.thrown THEN children
    ELSE Await(RmSingle(children.dev, denied, filePath, force), LAMBDA self :
    IF self.thrown
    THEN FinalRemovalThrew(self.dev, children.failed, filePath)
    ELSE RmDone(self.dev,
                IF self.val THEN children.failed
                ELSE Append(children.failed, filePath), FALSE))))))

\* Trees the device can hold: every path has its parent.
Trees ==
    { [path \in paths |-> IF IsFileName(path[Len(path)]) THEN "S_IFREG" ELSE "S_IFDIR"] :
        paths \in {P \in SUBSET PathUniverse :
                      \A path \in P : Len(path) = 1 \/ Parent(path) \in P} }

NoCall == [op |-> "none", path |-> << >>, force |-> FALSE, chunks |-> 0, error |-> FALSE]
NoResult == [thrown |-> FALSE, failed |-> << >>]

AfcIdle ==
    /\ afcFs = << >>
    /\ afcDenied = {}
    /\ afcLog = << >>
    /\ afcCall = NoCall
    /\ afcRet = NoResult
    /\ afcBefore = << >>
    /\ afcPc = "idle"

AfcInit ==
    /\ afcFs \in Trees
    /\ afcDenied \in {{}} \cup {{path} : path \in PathUniverse}
    /\ afcLog = << >>
    /\ afcCall = NoCall
    /\ afcRet = NoResult
    /\ afcBefore = afcFs
    /\ afcPc = "idle"

\* The device of rm: any tree, and any set of paths it refuses to remove
RmInit ==
    /\ afcFs \in Trees
    /\ afcDenied \in SUBSET PathUniverse
    /\ afcLog = << >>
    /\ afcCall = NoCall
    /\ afcRet = NoResult
    /\ afcBefore = afcFs
    /\ afcPc = "idle"

\* rm(filePath, force), from the call to its return
RmCall(filePath, force) ==
    /\ afcPc = "idle"
    /\ \E done \in {Rm(Device(afcFs, << >>), afcDenied, filePath, force)} :
           /\ afcFs' = done.dev.fs
           /\ afcLog' = done.dev.log
           /\ afcRet' = [thrown |-> done.thrown,
                         failed |-> IF done.thrown THEN << >> ELSE done.failed]
    /\ afcCall' = [NoCall EXCEPT !.op = "rm", !.path = filePath, !.force = force]
    /\ afcBefore' = afcFs
    /\ UNCHANGED <<afcDenied, afcPc>>

\* Device status for FILE_OPEN in mode 'w'
OpenStatus(fs, path) ==
    IF /\ Parent(path) \in DOMAIN fs
       /\ fs[Parent(path)] = "S_IFDIR"
       /\ (path \in DOMAIN fs => fs[path] = "S_IFREG")
    THEN "SUCCESS" ELSE "OBJECT_NOT_FOUND"

\* setFileContents / writeFromStream: fopen(filePath, 'w')
OpenForWrite(op, filePath, chunks) ==
    /\ afcPc = "idle"
    /\ LET status == OpenStatus(afcFs, filePath)
       IN  /\ afcLog' = <<[op |-> "FILE_OPEN", path |-> filePath, status |-> status]>>
           /\ IF status = "SUCCESS"
              THEN /\ afcFs' = [q \in DOMAIN afcFs \cup {filePath} |->
                                   IF q = filePath THEN "S_IFREG" ELSE afcFs[q]]
                   /\ afcPc' = "writing"
                   /\ afcRet' = NoResult
              ELSE /\ afcRet' = [thrown |-> TRUE, failed |-> << >>]
                   /\ UNCHANGED <<afcFs, afcPc>>
    /\ afcCall' = [NoCall EXCEPT !.op = op, !.path = filePath, !.chunks = chunks]
    /\ afcBefore' = afcFs
    /\ UNCHANGED afcDenied

\* fwrite(handle, data, chunkSize) on the handle of an open file
Fwrite(filePath, chunks) ==
    /\ afcPc = "idle"
    /\ filePath \in DOMAIN afcFs
    /\ afcFs[filePath] = "S_IFREG"
    /\ afcLog' = << >>
    /\ afcCall' = [NoCall EXCEPT !.op = "fwrite", !.path = filePath, !.chunks = chunks]
    /\ afcRet' = NoResult
    /\ afcBefore' = afcFs
    /\ afcPc' = "writing"
    /\ UNCHANGED <<afcFs, afcDenied>>

\* fwrite / write stream: status !== AfcError.SUCCESS
WriteFailedNever(status) == FALSE
WriteFailed(status) == status # "SUCCESS"

\* fwrite / write stream: one WRITE packet and its reply
WriteChunk(status) ==
    /\ afcPc = "writing"
    /\ afcCall.chunks > 0
    /\ afcLog' = Append(afcLog, [op |-> "WRITE", path |-> afcCall.path, status |-> status])
    /\ IF WriteFailed(status)
       THEN IF afcCall.op = "fwrite"
            THEN /\ afcRet' = [thrown |-> TRUE, failed |-> << >>]
                 /\ afcPc' = "idle"
                 /\ UNCHANGED afcCall
            ELSE /\ afcCall' = [afcCall EXCEPT !.error = TRUE]
                 /\ afcPc' = "failed"
                 /\ UNCHANGED afcRet
       ELSE /\ afcCall' = [afcCall EXCEPT !.chunks = @ - 1]
            /\ UNCHANGED <<afcRet, afcPc>>
    /\ UNCHANGED <<afcFs, afcDenied, afcBefore>>

\* writeFromStream: pipeline(stream, writeStream) rejects because the source fails
SourceFails ==
    /\ afcPc = "writing"
    /\ afcCall.op = "writeFromStream"
    /\ afcCall' = [afcCall EXCEPT !.error = TRUE]
    /\ afcPc' = "failed"
    /\ UNCHANGED <<afcFs, afcDenied, afcLog, afcRet, afcBefore>>

\* setFileContents / writeFromStream: catch { await this.rmSingle(filePath, true) }
Cleanup ==
    /\ afcPc = "failed"
    /\ LET one == RmSingle(Device(afcFs, afcLog), afcDenied, afcCall.path, TRUE)
       IN  /\ afcFs' = one.dev.fs
           /\ afcLog' = one.dev.log
    /\ afcPc' = "closing"
    /\ UNCHANGED <<afcDenied, afcCall, afcRet, afcBefore>>

\* All data written: fwrite returns; the others go on to their finally block
EndOfData ==
    /\ afcPc = "writing"
    /\ afcCall.chunks = 0
    /\ afcPc' = IF afcCall.op = "fwrite" THEN "idle" ELSE "closing"
    /\ UNCHANGED <<afcFs, afcDenied, afcLog, afcCall, afcRet, afcBefore>>

\* getFileContents(filePath) up to the read: _resolvePath and stat ask for
\* the file's info, a path that is not a regular file raises, then
\* fopen(resolved, 'r'), which the device answers with status
OpenForRead(filePath, status) ==
    /\ afcPc = "idle"
    /\ \E link \in {GetFileInfo(Device(afcFs, << >>), filePath)} :
       \E info \in {GetFileInfo(link.dev, filePath)} :
          IF Stat(link.reply).thrown
          THEN /\ afcLog' = link.dev.log
               /\ afcRet' = [thrown |-> TRUE, failed |-> << >>]
               /\ UNCHANGED afcPc
          ELSE IF Lookup(Stat(info.reply).v, "st_ifmt") # Typed("string", <<"S_IFREG">>)
          THEN /\ afcLog' = info.dev.log
               /\ afcRet' = [thrown |-> TRUE, failed |-> << >>]
               /\ UNCHANGED afcPc
          ELSE /\ afcLog' = Append(info.dev.log,
                                   [op |-> "FILE_OPEN", path |-> filePath, status |-> status])
               /\ IF status = "SUCCESS"
                  THEN afcPc' = "reading" /\ afcRet' = NoResult
                  ELSE afcRet' = [thrown |-> TRUE, failed |-> << >>] /\ UNCHANGED afcPc
    /\ afcCall' = [NoCall EXCEPT !.op = "getFileContents", !.path = filePath]
    /\ afcBefore' = afcFs
    /\ UNCHANGED <<afcFs, afcDenied>>

\* getFileContents: fread(h, st.st_size) from the call to its end: no READ
\* request for an empty file, or one READ request that the device answers
\* with the data or with a failure status; then the finally block
Fread(requested, status) ==
    /\ afcPc = "reading"
    /\ ~requested => status = "SUCCESS"
    /\ afcLog' = IF requested
                 THEN Append(afcLog, [op |-> "READ", path |-> afcCall.path,
                                      status |-> status])
                 ELSE afcLog
    /\ afcCall' = [afcCall EXCEPT !.error = status # "SUCCESS"]
    /\ afcPc' = "closing"
    /\ UNCHANGED <<afcFs, afcDenied, afcRet, afcBefore>>

\* A reading of finally as the end of the try block only
FinallyRunsOnSuccess(error) == ~error

\* try { ... } finally { ... }: the block runs whether or not an error is pending
FinallyRuns(error) == TRUE

\* getFileContents / setFileContents / writeFromStream:
\* finally { await this.fclose(h) }, then the pending error, or the one
\* fclose raised, reaches the caller
Fclose(status) ==
    /\ afcPc = "closing"
    /\ IF FinallyRuns(afcCall.error)
       THEN /\ afcLog' = Append(afcLog, [op |-> "FILE_CLOSE", path |-> afcCall.path,
                                         status |-> status])
            /\ afcRet' = [thrown |-> afcCall.error \/ status # "SUCCESS",
                          failed |-> << >>]
       ELSE /\ afcRet' = [thrown |-> TRUE, failed |-> << >>]
            /\ UNCHANGED afcLog
    /\ afcPc' = "idle"
    /\ UNCHANGED <<afcFs, afcDenied, afcCall, afcBefore>>

(***************************************************************************)
(* File conduit: packets and responses on the socket                       *)
(***************************************************************************)
\* Response frames a device sends: the operation of the header and the
\* payload; the payload of a STATUS frame is its 8-byte status.
StatusFrame(status) == [operation |-> "STATUS", payload |-> <<status>>]
DataFrame(payload) == [operation |-> "DATA", payload |-> payload]
Frames ==
    { StatusFrame("SUCCESS"), StatusFrame("OBJECT_NOT_FOUND"),
      StatusFrame("PERM_DENIED"), DataFrame(<<"data">>), DataFrame(<< >>) }

\* readAfcResponse: the header, then the payload, then { status, data }
ReadAfcResponse(frame) ==
    IF frame.operation = "STATUS"
    THEN [status |-> frame.payload[1], data |-> << >>]
    ELSE [status |-> "SUCCESS", data |-> frame.payload]

\* _dispatch: this.packetNum++ leaves the number after the one it passes on
PostIncrementLost(n) == n
PostIncrement(n) == n + 1

NoSocket == [conn |-> 0, usable |-> FALSE, shaken |-> FALSE]
Kinds == {"doOperation", "fwrite", "readStream", "writeStream"}
Outcome(thrown, data) == [thrown |-> thrown, data |-> data]
NoFrame == [operation |-> "none", payload |-> << >>]
\* The operation in progress; `packets`, `responses` and `frame` are history:
\* the packets it dispatched, the responses it consumed, and the frame a
\* _doOperation read.
Operation(kind, pc, left) ==
    [kind |-> kind, pc |-> pc, left |-> left, ret |-> Outcome("none", << >>),
     packets |-> 0, responses |-> 0, frame |-> NoFrame]
NoOp == Operation("none", "idle", 0)

WireIdle ==
    /\ afcPacketNum = 0
    /\ afcSocket = NoSocket
    /\ afcWire = << >>
    /\ afcReplies = 0
    /\ afcOwed = 0
    /\ afcConsumed = 0
    /\ afcOp = NoOp

\* A caller starts _doOperation, fwrite (left chunks of data), or the first
\* read() / write() of a stream (left chunks to move); nothing to move ends
\* fwrite and the streams without a packet.
Begin(kind, left) ==
    /\ afcOp.pc = "idle"
    /\ afcOp' = Operation(kind, IF left = 0 THEN "idle" ELSE "dispatch", left)
    /\ UNCHANGED <<afcPacketNum, afcSocket, afcWire, afcReplies, afcOwed, afcConsumed>>

\* The Request field of a length-prefixed reply of the service handshake
RsdReplies == {"RSDCheckin", "StartService", "other"}

\* rsdHandshakeForRawService completes: the first reply is validated as
\* RSDCheckin, then the second as StartService
RsdHandshakeForRawService(first, second) ==
    first = "RSDCheckin" /\ second = "StartService"

\* _connect without a socket that can be used: this.socket becomes the new
\* connection, with its own read state, and then the handshake runs on it;
\* when the handshake throws, the operation fails and this.socket stays
AfcConnect(first, second) ==
    /\ afcOp.pc = "dispatch"
    /\ ~afcSocket.usable
    /\ afcSocket.conn < MaxConnections
    /\ afcSocket' = [conn |-> afcSocket.conn + 1, usable |-> TRUE,
                     shaken |-> RsdHandshakeForRawService(first, second)]
    /\ afcReplies' = 0
    /\ afcOwed' = 0
    /\ afcOp' = IF RsdHandshakeForRawService(first, second) THEN afcOp
                ELSE [afcOp EXCEPT !.pc = "idle", !.ret = Outcome("handshake", << >>)]
    /\ UNCHANGED <<afcPacketNum, afcWire, afcConsumed>>

\* _dispatch: _connect returns this.socket, then
\* sendAfcPacket(sock, op, this.packetNum++, ...); socket.write completes, or
\* fails on a socket that is destroyed
Dispatch(written) ==
    /\ afcOp.pc = "dispatch"
    /\ afcSocket.usable
    /\ afcPacketNum < MaxPackets
    /\ afcSocket' = [afcSocket EXCEPT !.usable = written]
    /\ afcWire' = Append(afcWire, [conn |-> afcSocket.conn,
                                   num |-> afcPacketNum,
                                   written |-> written,
                                   shaken |-> afcSocket.shaken])
    /\ afcPacketNum' = PostIncrement(afcPacketNum)
    /\ afcOwed' = afcOwed + (IF written THEN 1 ELSE 0)
    /\ afcOp' = IF written THEN [afcOp EXCEPT !.pc = "receive", !.packets = @ + 1]
                ELSE [afcOp EXCEPT !.pc = "idle", !.packets = @ + 1,
                                   !.ret = Outcome("write", << >>)]
    /\ UNCHANGED <<afcReplies, afcConsumed>>

\* _connect fails: no socket, no packet
ConnectFails ==
    /\ afcOp.pc = "dispatch"
    /\ ~afcSocket.usable
    /\ afcOp' = [afcOp EXCEPT !.pc = "idle", !.ret = Outcome("connect", << >>)]
    /\ UNCHANGED <<afcPacketNum, afcSocket, afcWire, afcReplies, afcOwed, afcConsumed>>

\* The device answers the oldest unanswered request; onData buffers the frame
DeviceReplies ==
    /\ afcSocket.usable
    /\ afcOwed > 0
    /\ afcOwed' = afcOwed - 1
    /\ afcReplies' = afcReplies + 1
    /\ UNCHANGED <<afcPacketNum, afcSocket, afcWire, afcConsumed, afcOp>>

\* What the caller does with { status, data }
AfterResponse(op, res) ==
    CASE op.kind = "doOperation" ->
           IF res.status # "SUCCESS"
           THEN [op EXCEPT !.pc = "idle",
                           !.ret = Outcome(IF res.status = "OBJECT_NOT_FOUND"
                                           THEN "objectNotFound" ELSE "failed", << >>)]
           ELSE [op EXCEPT !.pc = "idle", !.left = 0, !.ret = Outcome("none", res.data)]
      [] op.kind = "readStream" ->
           IF res.status # "SUCCESS"
           THEN [op EXCEPT !.pc = "idle", !.ret = Outcome("failed", << >>)]
           ELSE [op EXCEPT !.pc = "idle", !.left = @ - Len(res.data)]
      [] OTHER ->
           IF res.status # "SUCCESS"
           THEN [op EXCEPT !.pc = "idle", !.ret = Outcome("failed", << >>)]
           ELSE IF op.left = 1
           THEN [op EXCEPT !.pc = "idle", !.left = 0]
           ELSE [op EXCEPT !.pc = "dispatch", !.left = @ - 1]

\* _receive: readAfcResponse returns the next frame of the socket, whatever
\* the device put in it
Receive(frame) ==
    /\ afcOp.pc = "receive"
    /\ afcReplies > 0
    /\ afcConsumed' = afcConsumed + 1
    /\ afcReplies' = afcReplies - 1
    /\ afcOp' = [AfterResponse(afcOp, ReadAfcResponse(frame))
                    EXCEPT !.responses = @ + 1,
                           !.frame = IF afcOp.kind = "doOperation" THEN frame ELSE NoFrame]
    /\ UNCHANGED <<afcPacketNum, afcSocket, afcWire, afcOwed>>

\* readExact: the waiter's timer fires before the bytes are there
ReceiveTimeout ==
    /\ afcOp.pc = "receive"
    /\ afcReplies = 0
    /\ afcOp' = [afcOp EXCEPT !.pc = "idle", !.ret = Outcome("timeout", << >>)]
    /\ UNCHANGED <<afcPacketNum, afcSocket, afcWire, afcReplies, afcOwed, afcConsumed>>

\* close(), called between two operations: this.socket?.end(); this.socket = null
CloseService ==
    /\ afcOp.pc = "idle"
    /\ afcSocket.usable
    /\ afcSocket' = [afcSocket EXCEPT !.usable = FALSE]
    /\ UNCHANGED <<afcPacketNum, afcWire, afcReplies, afcOwed, afcConsumed, afcOp>>

(***************************************************************************)
(* Channel: method names and selectors                                     *)
(***************************************************************************)
\* Strings are sequences of characters.
NameChars == {"_", "m", "n"}

RECURSIVE ReplaceAll(_, _, _)
\* String.prototype.replace(/x/g, y)
ReplaceAll(str, x, y) ==
    IF str = << >> THEN << >>
    ELSE <<IF Head(str) = x THEN y ELSE Head(str)>> \o ReplaceAll(Tail(str), x, y)

\* Channel.convertToSelector(name)
ConvertToSelector(name) ==
    IF name # << >> /\ Head(name) = "_"
    THEN <<"_">> \o ReplaceAll(Tail(name), "_", ":")
    ELSE ReplaceAll(name, "_", ":")

CallIdle ==
    /\ callName = << >>
    /\ callSent = << >>
    /\ callPc = "idle"

CallInit ==
    /\ callName \in UNION {[1..n -> NameChars] : n \in 0..MaxName}
    /\ callSent = << >>
    /\ callPc = "input"

\* call(methodName)(args, expectsReply): the selector given to sendMessage
Call ==
    /\ callPc = "input"
    /\ callSent' = ConvertToSelector(callName)
    /\ callPc' = "sent"
    /\ UNCHANGED callName

(***************************************************************************)
(* Instrumentation engine: receiving multiplexed messages                  *)
(***************************************************************************)
Abs(n) == IF n < 0 THEN -n ELSE n

RECURSIVE BitOr(_, _)
\* a | b on non-negative integers
BitOr(a, b) ==
    IF a = 0 THEN b
    ELSE IF b = 0 THEN a
    ELSE (IF a % 2 = 1 \/ b % 2 = 1 THEN 1 ELSE 0) + 2 * BitOr(a \div 2, b \div 2)

\* sendMessage: flags = INSTRUMENTS_MESSAGE_TYPE; if (expectsReply) flags |= EXPECTS_REPLY_MASK
SendFlags(expectsReply) ==
    IF expectsReply THEN BitOr(INSTRUMENTS_MESSAGE_TYPE, EXPECTS_REPLY_MASK)
    ELSE INSTRUMENTS_MESSAGE_TYPE

\* recvMessage: (payloadHeader.flags & 0xff000) >> 12
Compression(flags) == (flags \div 4096) % 256

\* Signed channel codes of the messages the device sends
MuxCodes == {-1, 1, 2}
\* Channels recvMessage is called on; 0 and 1 have a reassembler from the start
MuxChannels == {1, 2}
\* Payload-header flags of the messages the device sends: the two values
\* sendMessage writes, and a message compressed with method 2
MuxFlags == {SendFlags(FALSE), SendFlags(TRUE), INSTRUMENTS_MESSAGE_TYPE + 2 * 8192}
\* The messages the device sends: a single fragment, or a header-only first
\* fragment followed by two fragments with payload; a reply to a message of
\* the host has conversationIndex 1 and expects no reply itself
MuxShapes ==
    [flags : MuxFlags, fragmentCount : {1}, conversationIndex : {0}]
      \cup [flags : {SendFlags(FALSE)}, fragmentCount : {3}, conversationIndex : {0}]
      \cup [flags : {SendFlags(FALSE)}, fragmentCount : {1}, conversationIndex : {1}]

NewFragmenter == [messages |-> << >>, packetData |-> << >>, streamPacketData |-> << >>]

NotSending == [identifier |-> 0, flags |-> 0, conversationIndex |-> 0,
               fragmentCount |-> 0, next |-> 0]

NoMuxRet == [channel |-> 0, status |-> "none", flags |-> 0, data |-> << >>]

MuxIdle ==
    /\ muxWire = << >>
    /\ muxSending = [code \in MuxCodes |-> NotSending]
    /\ muxStarted = 0
    /\ muxChannels = [c \in {0, 1} |-> NewFragmenter]
    /\ muxMessageId = 0
    /\ muxExpected = [c \in MuxChannels |-> << >>]
    /\ muxDelivered = [c \in MuxChannels |-> << >>]
    /\ muxPending = << >>
    /\ muxRet = NoMuxRet

\* The bytes of message m: its payload header, no auxiliary data, one byte of object data
MessageBytes(s) ==
    BuildPayloadHeader([flags |-> s.flags, auxiliaryLength |-> 0, totalLength |-> 1])
      \o <<s.identifier>>

\* The data that follows the header of fragment k of a message
FragmentData(s, k) ==
    IF s.fragmentCount = 1 THEN MessageBytes(s)
    ELSE IF k = 0 THEN << >>
    ELSE IF k = 1 THEN SubSeq(MessageBytes(s), 1, PAYLOAD_HEADER_SIZE)
    ELSE SubSeq(MessageBytes(s), PAYLOAD_HEADER_SIZE + 1, Len(MessageBytes(s)))

\* One fragment on the wire: its parsed message header and the data after it.
\* The first fragment of a fragmented message announces the whole length and
\* carries no data.
Fragment(code, s, k) ==
    [header |-> [channelCode |-> code, fragmentId |-> k,
                 fragmentCount |-> s.fragmentCount,
                 length |-> IF s.fragmentCount > 1 /\ k = 0 THEN Len(MessageBytes(s))
                            ELSE Len(FragmentData(s, k)),
                 identifier |-> s.identifier,
                 conversationIndex |-> s.conversationIndex],
     data |-> FragmentData(s, k)]

\* The bytes of a fragment as DTXMessage.buildMessageHeader frames it
FragmentBytes(f) ==
    BuildMessageHeader([magic |-> MESSAGE_HEADER_MAGIC, cb |-> MESSAGE_HEADER_SIZE,
                        fragmentId |-> f.header.fragmentId,
                        fragmentCount |-> f.header.fragmentCount,
                        length |-> f.header.length,
                        identifier |-> f.header.identifier,
                        conversationIndex |-> f.header.conversationIndex,
                        channelCode |-> f.header.channelCode,
                        expectsReply |-> 0])
      \o f.data

\* The device puts fragment s.next of the message it is sending on code
Emit(code, s) ==
    /\ muxWire' = muxWire \o FragmentBytes(Fragment(code, s, s.next))
    /\ muxSending' = [muxSending EXCEPT ![code] = [s EXCEPT !.next = @ + 1]]
    /\ muxExpected' = IF s.next = s.fragmentCount - 1
                      THEN [muxExpected EXCEPT ![Abs(code)] = Append(@, MessageBytes(s))]
                      ELSE muxExpected

\* The device starts a message on a channel code that has none in progress
DeviceBegins(code, shape) ==
    /\ muxStarted < MaxStream
    /\ muxSending[code].next = muxSending[code].fragmentCount
    /\ muxStarted' = muxStarted + 1
    /\ Emit(code, [identifier |-> muxStarted + 1, flags |-> shape.flags,
                   conversationIndex |-> shape.conversationIndex,
                   fragmentCount |-> shape.fragmentCount, next |-> 0])
    /\ UNCHANGED <<muxChannels, muxMessageId, muxDelivered, muxPending, muxRet>>

\* The device sends the next fragment of a message in progress
DeviceContinues(code) ==
    /\ muxSending[code].next < muxSending[code].fragmentCount
    /\ Emit(code, muxSending[code])
    /\ UNCHANGED <<muxStarted, muxChannels, muxMessageId, muxDelivered, muxPending,
                   muxRet>>

\* ChannelFragmenter.addFragment(header, chunk) on the reassembler f
AddFragmentTo(f, header, chunk) ==
    IF header.channelCode >= 0
    THEN IF IsFinalFragment(header)
         THEN [f EXCEPT !.messages = Append(@, f.packetData \o chunk),
                        !.packetData = << >>]
         ELSE [f EXCEPT !.packetData = @ \o chunk]
    ELSE IF IsFinalFragment(header)
         THEN [f EXCEPT !.messages = Append(@, f.streamPacketData \o chunk),
                        !.streamPacketData = << >>]
         ELSE [f EXCEPT !.streamPacketData = @ \o chunk]

\* A reading of the header-only fragment as a message of its own
SkipFragmentQueued(f, header) ==
    IF header.channelCode >= 0
    THEN [f EXCEPT !.messages = Append(@, f.packetData), !.packetData = << >>]
    ELSE [f EXCEPT !.messages = Append(@, f.streamPacketData),
                   !.streamPacketData = << >>]

\* recvPacketFragments on a header-only fragment: `continue`, the reassembler
\* of its channel is left as it is
SkipFragment(f, header) == f

\* The first fragment of a fragmented message: a header that carries no payload
IsHeaderOnlyFragment(header) == header.fragmentCount > 1 /\ header.fragmentId = 0

RECURSIVE RecvPacketFragments(_, _, _, _)
\* recvPacketFragments(channel) from the reassemblers cm, the unread bytes
\* wire and curMessageId, until it returns, raises or suspends in readExact.
\* A read that suspends leaves the bytes it has taken at the front of wire:
\* the loop resumes from the header it was working on.
RecvPacketFragments(cm, wire, curId, channel) ==
    IF channel \notin DOMAIN cm
    THEN [status |-> "noFragmenter", message |-> << >>, cm |-> cm, wire |-> wire,
          curId |-> curId]
    ELSE IF cm[channel].messages # << >>
    THEN [status |-> "message", message |-> Head(cm[channel].messages),
          cm |-> [cm EXCEPT ![channel].messages = Tail(@)], wire |-> wire,
          curId |-> curId]
    ELSE IF Len(wire) < MESSAGE_HEADER_SIZE
    THEN [status |-> "suspended", message |-> << >>, cm |-> cm, wire |-> wire,
          curId |-> curId]
    ELSE LET header == ParseMessageHeader(SubSeq(wire, 1, MESSAGE_HEADER_SIZE))
             rest == SubSeq(wire, MESSAGE_HEADER_SIZE + 1, Len(wire))
             receivedChannel == Abs(header.channelCode)
             cm1 == IF receivedChannel \in DOMAIN cm THEN cm
                    ELSE [c \in DOMAIN cm \cup {receivedChannel} |->
                             IF c \in DOMAIN cm THEN cm[c] ELSE NewFragmenter]
             id1 == IF header.conversationIndex = 0 /\ header.identifier > curId
                    THEN header.identifier ELSE curId
         IN  IF IsHeaderOnlyFragment(header)
             THEN RecvPacketFragments(
                      [cm1 EXCEPT ![receivedChannel] = SkipFragment(@, header)],
                      rest, id1, channel)
             ELSE IF Len(rest) < header.length
             THEN [status |-> "suspended", message |-> << >>, cm |-> cm1,
                   wire |-> wire, curId |-> id1]
             ELSE RecvPacketFragments(
                      [cm1 EXCEPT ![receivedChannel] =
                                     AddFragmentTo(@, header,
                                                   SubSeq(rest, 1, header.length))],
                      SubSeq(rest, header.length + 1, Len(rest)), id1, channel)

\* recvMessage after recvPacketFragments returned the packet data
ParseMessage(channel, packet) ==
    LET payloadHeader == ParsePayloadHeader(packet)
        objSize == payloadHeader.totalLength - payloadHeader.auxiliaryLength
        offset == PAYLOAD_HEADER_SIZE + payloadHeader.auxiliaryLength
    IN  IF payloadHeader = Thrown
        THEN [channel |-> channel, status |-> "tooSmall", flags |-> 0, data |-> << >>]
        ELSE IF Compression(payloadHeader.flags) # 0
        THEN [channel |-> channel, status |-> "compressed",
              flags |-> payloadHeader.flags, data |-> << >>]
        ELSE [channel |-> channel, status |-> "returned",
              flags |-> payloadHeader.flags,
              data |-> IF objSize > 0
                       THEN SubSeq(packet, offset + 1,
                                   IF offset + objSize < Len(packet)
                                   THEN offset + objSize ELSE Len(packet))
                       ELSE << >>]

\* recvMessage(channel), from the call or from where its read was suspended
Receiving(channel) ==
    \E got \in {RecvPacketFragments(muxChannels, muxWire, muxMessageId, channel)} :
       /\ muxChannels' = got.cm
       /\ muxWire' = got.wire
       /\ muxMessageId' = got.curId
       /\ IF got.status = "suspended"
          THEN /\ muxPending' = <<channel>>
               /\ muxRet' = [NoMuxRet EXCEPT !.channel = channel, !.status = "suspended"]
               /\ UNCHANGED muxDelivered
          ELSE IF got.status = "noFragmenter"
          THEN /\ muxPending' = << >>
               /\ muxRet' = [NoMuxRet EXCEPT !.channel = channel,
                                             !.status = "noFragmenter"]
               /\ UNCHANGED muxDelivered
          ELSE \E parsed \in {ParseMessage(channel, got.message)} :
                  /\ muxPending' = << >>
                  /\ muxRet' = parsed
                  /\ muxDelivered' =
                        IF parsed.status = "returned"
                        THEN [muxDelivered EXCEPT ![channel] = Append(@, got.message)]
                        ELSE muxDelivered
       /\ UNCHANGED <<muxSending, muxStarted, muxExpected>>

\* recvMessage(channel) is called while no other receive is in progress
RecvMessage(channel) ==
    /\ muxPending = << >>
    /\ Receiving(channel)

\* Data arrives for the read a receive is suspended in
ResumeReceive ==
    /\ muxPending # << >>
    /\ muxWire # << >>
    /\ Receiving(muxPending[1])

(***************************************************************************)
(* Exact-length reads of the two engines                                   *)
(***************************************************************************)
ReadEngines == {"dvt", "afc"}
\* Sizes of the chunks the socket emits and of the reads requested
ChunkSizes == 1..2
ReadSizes == 1..2

\* The bytes of the stream are numbered from 1: byte i has the value i.
StreamBytes(from, size) == [i \in 1..size |-> from + i]

NoRead == [n |-> 0, status |-> "none", data |-> << >>, error |-> "none"]

ReadIdle ==
    /\ rdEngine = "dvt"
    /\ rdSent = 0
    /\ rdInFlight = << >>
    /\ rdBuffer = << >>
    /\ rdListening = {}
    /\ rdFlowing = FALSE
    /\ rdHasSocket = TRUE
    /\ rdLine = "up"
    /\ rdResults = << >>
    /\ rdRet = NoRead
    /\ rdLost = 0
    /\ rdClosedPending = FALSE
    /\ rdConnected = << >>

ReadInit ==
    /\ rdEngine \in ReadEngines
    /\ rdSent = 0
    /\ rdInFlight = << >>
    /\ rdBuffer = << >>
    /\ rdListening = {}
    /\ rdFlowing = FALSE
    /\ rdHasSocket = TRUE
    /\ rdLine = "up"
    /\ rdResults = << >>
    /\ rdRet = NoRead
    /\ rdLost = 0
    /\ rdClosedPending = FALSE
    /\ rdConnected = << >>

\* The device writes the next size bytes of the stream as one chunk
DeviceSends(size) ==
    /\ rdLine # "down"
    /\ rdSent + size <= MaxBytes
    /\ rdInFlight' = Append(rdInFlight, StreamBytes(rdSent, size))
    /\ rdSent' = rdSent + size
    /\ UNCHANGED <<rdEngine, rdBuffer, rdListening, rdFlowing, rdHasSocket, rdLine,
                   rdResults, rdRet, rdLost, rdClosedPending, rdConnected>>

\* result = buffer.subarray(0, n); buffer = buffer.subarray(n)
TakeRest(buffer, n) == SubSeq(buffer, n + 1, Len(buffer))

\* The read of n bytes completes from the buffer
Resolve(buffer, n) ==
    /\ rdRet' = [n |-> n, status |-> "returned", data |-> SubSeq(buffer, 1, n),
                 error |-> "none"]
    /\ rdResults' = rdResults \o SubSeq(buffer, 1, n)
    /\ rdBuffer' = TakeRest(buffer, n)

Suspend(n) ==
    /\ rdRet' = [n |-> n, status |-> "suspended", data |-> << >>, error |-> "none"]
    /\ UNCHANGED <<rdResults, rdBuffer>>

Reject(error) ==
    /\ rdRet' = [rdRet EXCEPT !.status = "rejected", !.error = error]
    /\ UNCHANGED rdResults

\* The listeners a suspended read of the instrumentation engine registers
\* with socket.once, and those ensureSocketState registers
DvtListeners == {"data", "error"}
AfcListeners == {"data", "error", "close", "end"}

\* DVTSecureSocketProxyService.readExact(length), up to its first suspension
DvtReadExact(n) ==
    /\ rdEngine = "dvt"
    /\ rdRet.status # "suspended"
    /\ IF ~rdHasSocket
       THEN /\ rdRet' = [n |-> n, status |-> "rejected", data |-> << >>,
                         error |-> "not initialized"]
            /\ UNCHANGED <<rdResults, rdBuffer, rdListening, rdFlowing>>
       ELSE IF Len(rdBuffer) >= n
       THEN /\ Resolve(rdBuffer, n)
            /\ UNCHANGED <<rdListening, rdFlowing>>
       ELSE /\ Suspend(n)
            /\ rdListening' = DvtListeners
            /\ rdFlowing' = TRUE
    /\ UNCHANGED <<rdEngine, rdSent, rdInFlight, rdHasSocket, rdLine, rdLost,
                   rdClosedPending, rdConnected>>

\* readExact(socket, n) of the file conduit, up to its suspension
AfcReadExact(n) ==
    /\ rdEngine = "afc"
    /\ rdRet.status # "suspended"
    /\ rdHasSocket /\ rdLine = "up"
    /\ rdListening' = AfcListeners
    /\ rdFlowing' = TRUE
    /\ IF Len(rdBuffer) >= n THEN Resolve(rdBuffer, n) ELSE Suspend(n)
    /\ UNCHANGED <<rdEngine, rdSent, rdInFlight, rdHasSocket, rdLine, rdLost,
                   rdClosedPending, rdConnected>>

\* A chunk reaches no listener of the engine
ChunkLost(chunk) ==
    /\ rdLost' = rdLost + Len(chunk)
    /\ UNCHANGED <<rdBuffer, rdResults, rdRet>>

\* The socket emits 'data' with the oldest chunk in flight
DataEvent ==
    /\ rdInFlight # << >>
    /\ rdFlowing
    /\ rdLine # "down"
    /\ rdInFlight' = Tail(rdInFlight)
    /\ \E chunk \in {Head(rdInFlight)} :
          IF "data" \notin rdListening
          THEN ChunkLost(chunk) /\ UNCHANGED rdListening
          ELSE IF rdEngine = "afc"
          THEN \* onData of ensureSocketState
               /\ IF rdRet.status = "suspended" /\ Len(rdBuffer \o chunk) >= rdRet.n
                  THEN Resolve(rdBuffer \o chunk, rdRet.n)
                  ELSE /\ rdBuffer' = rdBuffer \o chunk
                       /\ UNCHANGED <<rdResults, rdRet>>
               /\ UNCHANGED <<rdListening, rdLost>>
          ELSE IF ~rdHasSocket
          THEN \* onData of readExact after close(): this.socket!.off throws
               /\ rdListening' = rdListening \ {"data"}
               /\ ChunkLost(chunk)
          ELSE \* onData of readExact, and the loop's next iteration
               /\ IF Len(rdBuffer \o chunk) >= rdRet.n
                  THEN /\ Resolve(rdBuffer \o chunk, rdRet.n)
                       /\ rdListening' = {}
                  ELSE /\ rdBuffer' = rdBuffer \o chunk
                       /\ rdListening' = DvtListeners
                       /\ UNCHANGED <<rdResults, rdRet>>
               /\ UNCHANGED rdLost
    /\ UNCHANGED <<rdEngine, rdSent, rdFlowing, rdHasSocket, rdLine, rdClosedPending, rdConnected>>

\* cleanupSocketState(socket, error): the listeners are removed, the waiters
\* rejected and the state, with its buffer, deleted
CleanupSocketState(error) ==
    /\ rdListening' = {}
    /\ rdBuffer' = << >>
    /\ IF rdRet.status = "suspended" THEN Reject(error)
       ELSE UNCHANGED <<rdResults, rdRet>>

\* The socket emits 'error' and is destroyed
ErrorEvent ==
    /\ rdLine # "down"
    /\ rdLine' = "down"
    /\ IF "error" \notin rdListening
       THEN UNCHANGED <<rdBuffer, rdListening, rdResults, rdRet>>
       ELSE IF rdEngine = "afc"
       THEN CleanupSocketState("socket error")
       ELSE IF ~rdHasSocket
       THEN \* onError of readExact after close(): this.socket!.off throws
            /\ rdListening' = rdListening \ {"error"}
            /\ UNCHANGED <<rdBuffer, rdResults, rdRet>>
       ELSE /\ rdListening' = {}
            /\ Reject("socket error")
            /\ UNCHANGED rdBuffer
    /\ UNCHANGED <<rdEngine, rdSent, rdInFlight, rdFlowing, rdHasSocket, rdLost,
                   rdClosedPending, rdConnected>>

\* The socket emits 'end' or 'close'
EndEvent ==
    /\ rdLine' = "down"
    /\ IF rdListening \cap {"close", "end"} # {}
       THEN CleanupSocketState("Socket closed")
       ELSE UNCHANGED <<rdBuffer, rdListening, rdResults, rdRet>>
    /\ UNCHANGED <<rdEngine, rdSent, rdInFlight, rdFlowing, rdHasSocket, rdLost,
                   rdClosedPending, rdConnected>>

\* The device ends the connection
PeerEnds ==
    /\ rdLine = "up"
    /\ EndEvent

\* After close() the socket finishes closing
SocketCloses ==
    /\ rdLine = "ending"
    /\ EndEvent

\* ServiceConnection.close(): the socket is closed
ConnectionClose == rdLine' = IF rdLine = "up" THEN "ending" ELSE rdLine

\* close() of either engine: DVT close() from this.connection.close() on,
\* AfcService.close()
CloseSocket ==
    /\ rdHasSocket
    /\ ConnectionClose
    /\ rdHasSocket' = FALSE
    /\ rdClosedPending' = (rdRet.status = "suspended")
    /\ UNCHANGED <<rdEngine, rdSent, rdInFlight, rdBuffer, rdListening, rdFlowing,
                   rdResults, rdRet, rdLost, rdConnected>>

\* connect() of the instrumentation engine after close(), called when no
\* read is pending: this.connection and this.socket are those of a new
\* connection, nothing has been read on it yet, and this.readBuffer is what
\* the previous connection left in it
DvtReconnect ==
    /\ rdEngine = "dvt"
    /\ ~rdHasSocket
    /\ rdRet.status # "suspended"
    /\ rdHasSocket' = TRUE
    /\ rdLine' = "up"
    /\ rdInFlight' = << >>
    /\ rdListening' = {}
    /\ rdFlowing' = FALSE
    /\ rdRet' = NoRead
    /\ rdClosedPending' = FALSE
    /\ rdConnected' = rdBuffer
    /\ UNCHANGED <<rdEngine, rdSent, rdBuffer, rdResults, rdLost>>

\* The 30000 ms timer of a waiter fires: the waiter is removed and rejected
ReadTimeout ==
    /\ rdEngine = "afc"
    /\ rdRet.status = "suspended"
    /\ Reject("readExact timeout")
    /\ UNCHANGED <<rdEngine, rdSent, rdInFlight, rdBuffer, rdListening, rdFlowing,
                   rdHasSocket, rdLine, rdLost, rdClosedPending, rdConnected>>

(***************************************************************************)
(* Auxiliary section of a received message                                 *)
(***************************************************************************)
MESSAGE_AUX_MAGIC == 496               \* 0x1f0
EMPTY_DICTIONARY == 10                 \* 0xa
AUX_TYPE_OBJECT == 2
AUX_TYPE_INT32 == 3
AUX_TYPE_INT64 == 6

MaxItems == 2         \* tagged items in one auxiliary section

\* One tagged item as the device frames it: the empty-dictionary marker (which
\* the parser accepts to be absent), the type, and the bytes of the value
AuxItem(marker, type, value) == [marker |-> marker, type |-> type, value |-> value]

\* The values sampled: an int32, an int64, an object of two bytes with its
\* length prefix, and a value of four bytes under a type the parser does not know
AuxValues ==
    { [type |-> AUX_TYPE_INT32, value |-> WriteUIntLE(7, 4)],
      [type |-> AUX_TYPE_INT64, value |-> WriteUIntLE(2147483647, 8)],
      [type |-> AUX_TYPE_OBJECT, value |-> WriteUIntLE(2, 4) \o <<98, 112>>],
      [type |-> 1, value |-> WriteUIntLE(7, 4)] }

AuxItems == {AuxItem(marker, v.type, v.value) : marker \in BOOLEAN, v \in AuxValues}

AuxInputs == UNION {[1..n -> AuxItems] : n \in 1..MaxItems}

AuxItemBytes(item) ==
    (IF item.marker THEN WriteUIntLE(EMPTY_DICTIONARY, 4) ELSE << >>)
      \o WriteUIntLE(item.type, 4) \o item.value

RECURSIVE AuxItemsData(_)
AuxItemsData(items) ==
    IF items = << >> THEN << >> ELSE AuxItemBytes(Head(items)) \o AuxItemsData(Tail(items))

\* The standard format: [magic:8][size:8][items...]
AuxiliaryBytes(items) ==
    WriteUIntLE(MESSAGE_AUX_MAGIC, 8) \o WriteUIntLE(Len(AuxItemsData(items)), 8)
      \o AuxItemsData(items)

RECURSIVE Concat(_)
\* Buffer.concat(chunks)
Concat(chunks) == IF chunks = << >> THEN << >> ELSE Head(chunks) \o Concat(Tail(chunks))

\* An unsigned integer of 32 or 64 bits, kept as its 16-bit limbs, least
\* significant first (a JavaScript number below 2^32, or a bigint below 2^64)
Limbs(width) == width \div 2

\* Buffer.writeUInt32LE / writeBigUInt64LE of such an integer
WriteLimbsLE(limbs) == Concat([i \in 1..Len(limbs) |-> WriteUIntLE(limbs[i], 2)])

\* Buffer.readUInt32LE / readBigUInt64LE of width bytes at a 0-based offset
ReadLimbsLE(buffer, offset, width) ==
    [i \in 1..Limbs(width) |-> ReadUIntLE(buffer, offset + 2 * (i - 1), 2)]

\* A parsed value: its type, the integer read, or the bytes of the object
\* (parseBinaryPlist of them, or the bytes themselves when that fails)
AuxValue(type, n, bytes) == [type |-> type, n |-> n, bytes |-> bytes]

\* buffer.readUInt32LE / readBigUInt64LE raise a RangeError beyond the buffer
InBuffer(buffer, offset, n) == offset + n <= Len(buffer)

\* parseAuxiliaryValue(buffer, type, offset)
ParseAuxiliaryValue(buffer, type, offset) ==
    IF type = AUX_TYPE_INT32
    THEN IF ~InBuffer(buffer, offset, 4) THEN Thrown
         ELSE [data |-> AuxValue(type, ReadLimbsLE(buffer, offset, 4), << >>),
               newOffset |-> offset + 4]
    ELSE IF type = AUX_TYPE_INT64
    THEN IF ~InBuffer(buffer, offset, 8) THEN Thrown
         ELSE [data |-> AuxValue(type, ReadLimbsLE(buffer, offset, 8), << >>),
               newOffset |-> offset + 8]
    ELSE IF type = AUX_TYPE_OBJECT
    THEN IF ~InBuffer(buffer, offset, 4) THEN Thrown
         ELSE LET length == ReadUIntLE(buffer, offset, 4)
                  end == IF offset + 4 + length < Len(buffer)
                         THEN offset + 4 + length ELSE Len(buffer)
              IN  [data |-> AuxValue(type, 0, SubSeq(buffer, offset + 5, end)),
                   newOffset |-> offset + 4 + length]
    ELSE Thrown

\* How the parsing of an auxiliary section ends for recvMessage: it raises,
\* or it returns the values, after a warning was logged or not
AuxOutcome(thrown, values, warned) ==
    [thrown |-> thrown, values |-> values, warned |-> warned]

RECURSIVE ParseAuxiliaryItems(_, _, _, _)
\* The loop of parseAuxiliaryStandard from offset with the values parsed so far
ParseAuxiliaryItems(buffer, endOffset, offset, values) ==
    IF ~(offset < endOffset /\ offset < Len(buffer))
    THEN AuxOutcome(FALSE, values, FALSE)
    ELSE IF ~InBuffer(buffer, offset, 4) THEN AuxOutcome(TRUE, << >>, FALSE)
    ELSE LET marker == ReadUIntLE(buffer, offset, 4)
             typeOffset == IF marker # EMPTY_DICTIONARY THEN offset ELSE offset + 4
         IN  IF ~InBuffer(buffer, typeOffset, 4) THEN AuxOutcome(TRUE, << >>, FALSE)
             ELSE LET value == ParseAuxiliaryValue(buffer,
                                                   ReadUIntLE(buffer, typeOffset, 4),
                                                   typeOffset + 4)
                  IN  IF value = Thrown
                      THEN AuxOutcome(FALSE, values, TRUE)
                      ELSE ParseAuxiliaryItems(buffer, endOffset, value.newOffset,
                                               Append(values, value.data))

\* parseAuxiliaryStandard(buffer)
ParseAuxiliaryStandard(buffer) ==
    ParseAuxiliaryItems(buffer, 16 + ReadUIntLE(buffer, 8, 8), 16, << >>)

\* parseAuxiliaryData(buffer); a section that does not start with the magic
\* is searched for a binary property list, and none of the sampled sections
\* holds one
ParseAuxiliaryData(buffer) ==
    IF Len(buffer) < 16 THEN AuxOutcome(FALSE, << >>, FALSE)
    ELSE IF ReadUIntLE(buffer, 0, 8) # MESSAGE_AUX_MAGIC
    THEN AuxOutcome(FALSE, << >>, FALSE)
    ELSE ParseAuxiliaryStandard(buffer)

NoAux == AuxOutcome(FALSE, << >>, FALSE)

\* The integers sampled for MessageAux.appendInt and appendLong: 0, 7, 2^31
\* and 2^32 - 1; 0, 2^32, 2^63 and 2^64 - 1
AuxArgs ==
    {[type |-> AUX_TYPE_INT32, value |-> v] :
        v \in {<<0, 0>>, <<7, 0>>, <<0, 32768>>, <<65535, 65535>>}}
      \cup {[type |-> AUX_TYPE_INT64, value |-> v] :
        v \in {<<0, 0, 0, 0>>, <<0, 0, 1, 0>>, <<0, 0, 0, 32768>>,
                <<65535, 65535, 65535, 65535>>}}

AuxArgLists == UNION {[1..n -> AuxArgs] : n \in 0..MaxItems}

\* The writes of the int64 case done with the 32-bit write of the int32 case
BuildAuxiliaryItemNarrow(auxValue) ==
    WriteUIntLE(EMPTY_DICTIONARY, 4) \o WriteUIntLE(auxValue.type, 4)
      \o WriteLimbsLE(SubSeq(auxValue.value, 1, Limbs(4)))

\* One pass of the loop of buildAuxiliaryData: the marker, the type, the value
BuildAuxiliaryItem(auxValue) ==
    WriteUIntLE(EMPTY_DICTIONARY, 4) \o WriteUIntLE(auxValue.type, 4)
      \o WriteLimbsLE(auxValue.value)

\* buildAuxiliaryData(args)
BuildAuxiliaryData(values) ==
    IF Len(values) = 0 THEN << >>
    ELSE LET itemsData == Concat([i \in 1..Len(values) |-> BuildAuxiliaryItem(values[i])])
         IN  WriteUIntLE(MESSAGE_AUX_MAGIC, 8) \o WriteUIntLE(Len(itemsData), 8)
               \o itemsData

AuxIdle ==
    /\ auxItems = << >>
    /\ auxBuffer = << >>
    /\ auxRet = NoAux
    /\ auxPc = "idle"
    /\ auxArgs = << >>

\* Either the device framed the section, or buildAuxiliaryData is to build it
AuxInit ==
    /\ auxBuffer = << >>
    /\ auxRet = NoAux
    /\ \/ auxItems \in AuxInputs /\ auxArgs = << >> /\ auxPc = "input"
       \/ auxItems = << >> /\ auxArgs \in AuxArgLists /\ auxPc = "args"

\* sendMessage builds the auxiliary section of its arguments
BuildAuxiliary ==
    /\ auxPc = "args"
    /\ auxBuffer' = BuildAuxiliaryData(auxArgs)
    /\ auxPc' = "built"
    /\ UNCHANGED <<auxItems, auxRet, auxArgs>>

\* The message arrives: recvMessage cuts auxiliaryLength bytes out of the packet
ReceiveAuxiliary ==
    /\ auxPc = "input"
    /\ auxBuffer' = AuxiliaryBytes(auxItems)
    /\ auxPc' = "received"
    /\ UNCHANGED <<auxItems, auxRet, auxArgs>>

\* recvMessage parses the auxiliary section (auxiliaryLength > 0)
ParseAuxiliary ==
    /\ auxPc \in {"received", "built"}
    /\ auxRet' = ParseAuxiliaryData(auxBuffer)
    /\ auxPc' = "parsed"
    /\ UNCHANGED <<auxItems, auxBuffer, auxArgs>>

(***************************************************************************)
(* File conduit: fread, fwrite and the stream adapters                     *)
(***************************************************************************)
MaxData == 3          \* bytes one call reads or writes

\* Operation codes of the packets modelled
AfcOpcode == [READ |-> 15, WRITE |-> 16, FILE_CLOSE |-> 20]

Min(a, b) == IF a < b THEN a ELSE b

\* buildReadPayload(handle, size) / buildClosePayload(handle)
BuildReadPayload(handle, size) == WriteUIntLE(handle, 8) \o WriteUIntLE(size, 8)
BuildClosePayload(handle) == WriteUIntLE(handle, 8)

\* A reading that asks for half of what is left, rounded up
NextReadChunkSizeHalf(left) == (left + 1) \div 2

\* nextReadChunkSize(left)
NextReadChunkSize(left) == left

\* A reading that sends all that is left in one packet
ChunkEndWhole(offset, chunkSize, length) == length

\* Math.min(offset + chunkSize, data.length)
ChunkEnd(offset, chunkSize, length) == Min(offset + chunkSize, length)

\* sendAfcPacket(sock, op, packetNum, payload, thisLenOverride): the header
\* and the payload written to the socket
AfcPacket(op, packetNum, payload, thisLenOverride) ==
    [header |-> EncodeHeader(op, packetNum, Len(payload), thisLenOverride),
     payload |-> payload]

\* The calls sampled: fread of size bytes, fwrite and a write() of the write
\* stream with data and a chunkSize (absent, or 0, 1, 2), and fclose
StreamData == {[i \in 1..n |-> 10 + i] : n \in 0..MaxData}
StreamCall(kind, size, data, chunkSize) ==
    [kind |-> kind, handle |-> 3, size |-> size, data |-> data, chunkSize |-> chunkSize]
StreamCalls ==
    {StreamCall("fread", size, << >>, Omitted) : size \in 0..MaxData}
      \cup {StreamCall(kind, 0, data, chunkSize) :
               kind \in {"fwrite", "writeStream"}, data \in StreamData,
               chunkSize \in {Omitted, <<0>>, <<1>>, <<2>>}}
      \cup {StreamCall("fclose", 0, << >>, Omitted)}

\* The responses of the device: a status, or the next k bytes of the file
\* (byte i of the file has the value i)
StreamReplies ==
    [operation : {"STATUS"}, status : {"SUCCESS", "PERM_DENIED"}, size : {0}]
      \cup [operation : {"DATA"}, status : {"SUCCESS"}, size : 0..MaxData]

\* The frame of a reply sent at a position of the file
StreamFrame(reply, position) ==
    IF reply.operation = "STATUS" THEN StatusFrame(reply.status)
    ELSE DataFrame([i \in 1..reply.size |-> position + i])

NoLoop == [left |-> 0, toRead |-> 0, offset |-> 0, end |-> 0]
StreamOutcome(status, data) == [status |-> status, data |-> data]

StreamIdle ==
    /\ stCall = StreamCall("none", 0, << >>, Omitted)
    /\ stPc = "done"
    /\ stLoop = NoLoop
    /\ stPacketNum = 0
    /\ stPackets = << >>
    /\ stResponses = << >>
    /\ stRet = StreamOutcome("none", << >>)

\* The call is made: let left = size / let offset = 0
StreamInit ==
    /\ stCall \in StreamCalls
    /\ stPc = "loop"
    /\ stLoop = [NoLoop EXCEPT !.left = stCall.size]
    /\ stPacketNum = 0
    /\ stPackets = << >>
    /\ stResponses = << >>
    /\ stRet = StreamOutcome("none", << >>)

\* _dispatch(op, payload, thisLenOverride) on a connected socket
StreamDispatch(op, payload, thisLenOverride) ==
    /\ stPacketNum < MaxPackets
    /\ stPackets' = Append(stPackets,
                           AfcPacket(op, stPacketNum, payload, thisLenOverride))
    /\ stPacketNum' = PostIncrement(stPacketNum)
    /\ stPc' = "await"

\* The payloads the read stream pushed so far
Pushed(responses) == Concat([i \in 1..Len(responses) |-> responses[i].data])

\* read() of the read stream with bytes left: a READ request for all of them
ReadRequest ==
    /\ stCall.kind = "fread" /\ stPc = "loop"
    /\ ~(stLoop.left <= 0)
    /\ \E toRead \in {NextReadChunkSize(stLoop.left)} :
          /\ StreamDispatch(AfcOpcode.READ, BuildReadPayload(stCall.handle, toRead),
                            Omitted)
          /\ stLoop' = [stLoop EXCEPT !.toRead = toRead]
    /\ UNCHANGED <<stCall, stResponses, stRet>>

\* read() with nothing left: push(null), and fread returns the chunks joined
ReadEnds ==
    /\ stCall.kind = "fread" /\ stPc = "loop"
    /\ stLoop.left <= 0
    /\ stPc' = "done"
    /\ stRet' = StreamOutcome("returned", Pushed(stResponses))
    /\ UNCHANGED <<stCall, stLoop, stPacketNum, stPackets, stResponses>>

\* The response to a READ request
ReadResponse(reply) ==
    /\ stCall.kind = "fread" /\ stPc = "await"
    /\ \E res \in {ReadAfcResponse(StreamFrame(reply, Len(Pushed(stResponses))))} :
          /\ stResponses' = Append(stResponses, res)
          /\ IF res.status # "SUCCESS"
             THEN /\ stPc' = "done"
                  /\ stRet' = StreamOutcome("failed", << >>)
                  /\ UNCHANGED stLoop
             ELSE /\ stLoop' = [stLoop EXCEPT !.left = @ - Len(res.data)]
                  /\ IF Len(res.data) < stLoop.toRead
                     THEN /\ stPc' = "done"
                          /\ stRet' = StreamOutcome("returned",
                                                    Pushed(stResponses) \o res.data)
                     ELSE /\ stPc' = "loop"
                          /\ UNCHANGED stRet
    /\ UNCHANGED <<stCall, stPacketNum, stPackets>>

\* chunkSize = data.length (fwrite) / chunkSize ?? chunk.length (write stream)
EffectiveChunkSize(call) ==
    IF call.chunkSize = Omitted THEN Len(call.data) ELSE call.chunkSize[1]

\* The loop of fwrite and of the write stream's write() with data left: a
\* WRITE packet with the handle and the next chunk
WriteRequest ==
    /\ stCall.kind \in {"fwrite", "writeStream"} /\ stPc = "loop"
    /\ stLoop.offset < Len(stCall.data)
    /\ \E end \in {ChunkEnd(stLoop.offset, EffectiveChunkSize(stCall), Len(stCall.data))} :
          /\ StreamDispatch(AfcOpcode.WRITE,
                            WriteUIntLE(stCall.handle, 8)
                              \o SubSeq(stCall.data, stLoop.offset + 1, end),
                            <<AFC_WRITE_THIS_LENGTH>>)
          /\ stLoop' = [stLoop EXCEPT !.end = end]
    /\ UNCHANGED <<stCall, stResponses, stRet>>

\* No data left: fwrite returns / callback()
WriteEnds ==
    /\ stCall.kind \in {"fwrite", "writeStream"} /\ stPc = "loop"
    /\ ~(stLoop.offset < Len(stCall.data))
    /\ stPc' = "done"
    /\ stRet' = StreamOutcome("returned", << >>)
    /\ UNCHANGED <<stCall, stLoop, stPacketNum, stPackets, stResponses>>

\* The response to a WRITE packet
WriteResponse(reply) ==
    /\ stCall.kind \in {"fwrite", "writeStream"} /\ stPc = "await"
    /\ \E res \in {ReadAfcResponse(StreamFrame(reply, 0))} :
          /\ stResponses' = Append(stResponses, res)
          /\ IF res.status # "SUCCESS"
             THEN /\ stPc' = "done"
                  /\ stRet' = StreamOutcome("failed", << >>)
                  /\ UNCHANGED stLoop
             ELSE /\ stLoop' = [stLoop EXCEPT !.offset = stLoop.end]
                  /\ stPc' = "loop"
                  /\ UNCHANGED stRet
    /\ UNCHANGED <<stCall, stPacketNum, stPackets>>

\* fclose(handle): _doOperation(FILE_CLOSE, buildClosePayload(handle))
CloseRequest ==
    /\ stCall.kind = "fclose" /\ stPc = "loop"
    /\ StreamDispatch(AfcOpcode.FILE_CLOSE, BuildClosePayload(stCall.handle), Omitted)
    /\ UNCHANGED <<stCall, stLoop, stResponses, stRet>>

CloseResponse(reply) ==
    /\ stCall.kind = "fclose" /\ stPc = "await"
    /\ \E res \in {ReadAfcResponse(StreamFrame(reply, 0))} :
          /\ stResponses' = Append(stResponses, res)
          /\ stRet' = StreamOutcome(IF res.status # "SUCCESS" THEN "failed"
                                    ELSE "returned", res.data)
    /\ stPc' = "done"
    /\ UNCHANGED <<stCall, stLoop, stPacketNum, stPackets>>

\* _receive rejects (the socket fails or the wait times out): the read stream
\* is destroyed with the error, fwrite throws, the write callback gets it
ReceiveFails ==
    /\ stPc = "await"
    /\ stPc' = "done"
    /\ stRet' = StreamOutcome("failed", << >>)
    /\ UNCHANGED <<stCall, stLoop, stPacketNum, stPackets, stResponses>>

(***************************************************************************)
(* File conduit: the writes of overlapping operations                      *)
(***************************************************************************)
SendIdle ==
    /\ sndPacketNum = 0
    /\ sndSocket = << >>
    /\ sndCallbacks = << >>
    /\ sndDispatched = << >>
    /\ sndResolved = {}

\* A callback handed to socket.write: of the header or of the payload of a packet
WriteCallbackOf(num, part, payload) == [num |-> num, part |-> part, payload |-> payload]

\* _dispatch(op, payload, thisLenOverride) on a connected socket, up to the
\* suspension of sendAfcPacket: the packet number is taken and incremented,
\* the header is encoded and handed to socket.write with its callback
SendDispatch(payload) ==
    /\ sndPacketNum < MaxPackets
    /\ sndPacketNum' = PostIncrement(sndPacketNum)
    /\ sndSocket' = sndSocket \o EncodeHeader(AfcOpcode.WRITE, sndPacketNum, Len(payload),
                                              <<AFC_WRITE_THIS_LENGTH>>)
    /\ sndCallbacks' = Append(sndCallbacks, WriteCallbackOf(sndPacketNum, "header", payload))
    /\ sndDispatched' = Append(sndDispatched, [num |-> sndPacketNum, payload |-> payload])
    /\ UNCHANGED sndResolved

\* The socket calls back for its oldest write (without an error): the
\* callback of a header hands the payload, if it has a byte, to
\* socket.write with a second callback; otherwise the send resolves
WriteCallback ==
    /\ sndCallbacks # << >>
    /\ \E cb \in {Head(sndCallbacks)} :
          IF cb.part = "header" /\ Len(cb.payload) > 0
          THEN /\ sndSocket' = sndSocket \o cb.payload
               /\ sndCallbacks' = Append(Tail(sndCallbacks),
                                         WriteCallbackOf(cb.num, "payload", cb.payload))
               /\ UNCHANGED sndResolved
          ELSE /\ sndResolved' = sndResolved \cup {cb.num}
               /\ sndCallbacks' = Tail(sndCallbacks)
               /\ UNCHANGED sndSocket
    /\ UNCHANGED <<sndPacketNum, sndDispatched>>

(***************************************************************************)
(* File conduit: readExact with several callers                            *)
(***************************************************************************)
MaxReads == 3         \* readExact calls on one socket

WaitIdle ==
    /\ wtSent = 0
    /\ wtInFlight = << >>
    /\ wtBuffer = << >>
    /\ wtWaiters = << >>
    /\ wtCalls = 0
    /\ wtDelivered = << >>
    /\ wtRejected = {}

\* The device writes the next size bytes of the stream as one chunk
WaitDeviceSends(size) ==
    /\ wtSent + size <= MaxBytes
    /\ wtInFlight' = Append(wtInFlight, StreamBytes(wtSent, size))
    /\ wtSent' = wtSent + size
    /\ UNCHANGED <<wtBuffer, wtWaiters, wtCalls, wtDelivered, wtRejected>>

\* What a read that returned got: the first n bytes of the buffer
Delivery(call, buffer, n) == [call |-> call, data |-> SubSeq(buffer, 1, n)]

\* readExact(socket, n), the next call on the socket: served from the buffer
\* when it holds n bytes, else a waiter is pushed
WaitReadExact(n) ==
    /\ wtCalls < MaxReads
    /\ wtCalls' = wtCalls + 1
    /\ IF Len(wtBuffer) >= n
       THEN /\ wtDelivered' = Append(wtDelivered, Delivery(wtCalls + 1, wtBuffer, n))
            /\ wtBuffer' = TakeRest(wtBuffer, n)
            /\ UNCHANGED wtWaiters
       ELSE /\ wtWaiters' = Append(wtWaiters, [call |-> wtCalls + 1, n |-> n])
            /\ UNCHANGED <<wtBuffer, wtDelivered>>
    /\ UNCHANGED <<wtSent, wtInFlight, wtRejected>>

RECURSIVE ServeWaiters(_)
\* onData after the chunk was appended:
\* while (st.waiters.length && st.buffer.length >= st.waiters[0].n)
ServeWaiters(st) ==
    IF st.waiters # << >> /\ Len(st.buffer) >= Head(st.waiters).n
    THEN ServeWaiters([buffer |-> TakeRest(st.buffer, Head(st.waiters).n),
                       waiters |-> Tail(st.waiters),
                       delivered |-> Append(st.delivered,
                                            Delivery(Head(st.waiters).call, st.buffer,
                                                     Head(st.waiters).n))])
    ELSE st

\* The socket emits 'data' with the oldest chunk in flight: onData
WaitData ==
    /\ wtInFlight # << >>
    /\ wtInFlight' = Tail(wtInFlight)
    /\ \E st \in {ServeWaiters([buffer |-> wtBuffer \o Head(wtInFlight),
                               waiters |-> wtWaiters, delivered |-> wtDelivered])} :
          /\ wtBuffer' = st.buffer
          /\ wtWaiters' = st.waiters
          /\ wtDelivered' = st.delivered
    /\ UNCHANGED <<wtSent, wtCalls, wtRejected>>

\* The 30000 ms timer of the waiter at position i fires: the waiter is
\* spliced out of state.waiters and rejected
WaitTimeout(i) ==
    /\ i \in 1..Len(wtWaiters)
    /\ wtWaiters' = SubSeq(wtWaiters, 1, i - 1) \o SubSeq(wtWaiters, i + 1, Len(wtWaiters))
    /\ wtRejected' = wtRejected \cup {wtWaiters[i].call}
    /\ UNCHANGED <<wtSent, wtInFlight, wtBuffer, wtCalls, wtDelivered>>

(***************************************************************************)
(* Instrumentation engine: makeChannel calls that overlap                  *)
(***************************************************************************)
MaxOverlap == 2       \* makeChannel calls that go past the cache test

OverlapIdle == mcCalls = << >>

\* The calls suspended in sendMessage's write or in recvPlist
Awaiting == {i \in 1..Len(mcCalls) : mcCalls[i].pc = "await"}

\* makeChannel(identifier) up to its first suspension: it raises or returns
\* at once, or it takes the next channel code, hands the request to the
\* socket and waits for the reply
MakeChannelBegins(identifier) ==
    \/ /\ ~isHandshakeComplete
       /\ ret' = Raise("makeChannel", identifier, "handshake")
       /\ UNCHANGED <<connection, socket, isHandshakeComplete, lastChannelCode,
                      curMessageId, channelCache, channelMessages, sent,
                      nextObject, returned, allocLog, lastReply, mcCalls>>
    \/ /\ isHandshakeComplete
       /\ CacheHit(identifier)
       /\ ret' = Return("makeChannel", identifier, channelCache[identifier], "cache")
       /\ returned' = [returned EXCEPT ![identifier] = channelCache[identifier]]
       /\ UNCHANGED <<connection, socket, isHandshakeComplete, lastChannelCode,
                      curMessageId, channelCache, channelMessages, sent,
                      nextObject, allocLog, lastReply, mcCalls>>
    \/ /\ isHandshakeComplete
       /\ ~CacheHit(identifier)
       /\ Len(mcCalls) < MaxOverlap
       /\ lastChannelCode' = NextChannelCode
       /\ allocLog' = Append(allocLog, NextChannelCode)
       /\ SendMessage(BROADCAST_CHANNEL, RequestChannelSelector,
                      <<NextChannelCode, identifier>>, TRUE)
       /\ mcCalls' = Append(mcCalls,
                            [identifier |-> identifier, channelCode |-> NextChannelCode,
                             during |-> {i \in Awaiting : mcCalls[i].identifier = identifier},
                             pc |-> "await", channel |-> NoChannel])
       /\ UNCHANGED <<connection, socket, isHandshakeComplete, channelCache,
                      channelMessages, nextObject, ret, returned, lastReply>>

\* The call at position i of the log resumes: its write failed, or recvPlist
\* returned (or failed); the rest of makeChannel runs
MakeChannelResumes(i) ==
    /\ i \in Awaiting
    /\ \E r \in ChannelReplies, seen \in SeenSets : \E outcome \in {ChannelCheck(r)} :
         LET call == mcCalls[i]
             afterRecv == IF outcome = "writeFail" THEN channelMessages
                          ELSE LazyFragmenters(channelMessages, seen, nextObject)
             created == IF outcome = "writeFail" THEN 0
                        ELSE Cardinality(seen \ DOMAIN channelMessages)
             channel == NewChannel(call.channelCode, nextObject + created)
         IN  /\ r.io = "writeFail" => seen = {}    \* nothing is read
             /\ lastReply' = [r EXCEPT !.seen = seen]
             /\ IF outcome = "ok"
                THEN /\ channelCache' =
                          [id \in DOMAIN channelCache \cup {call.identifier} |->
                              IF id = call.identifier THEN channel ELSE channelCache[id]]
                     /\ channelMessages' =
                          [c \in DOMAIN afterRecv \cup {call.channelCode} |->
                              IF c = call.channelCode
                              THEN nextObject + created + 1 ELSE afterRecv[c]]
                     /\ nextObject' = nextObject + created + 2
                     /\ ret' = Return("makeChannel", call.identifier, channel, "new")
                     /\ returned' = [returned EXCEPT ![call.identifier] = channel]
                     /\ mcCalls' = [mcCalls EXCEPT ![i].pc = "returned",
                                                   ![i].channel = channel]
                ELSE /\ channelCache' = channelCache
                     /\ channelMessages' = afterRecv
                     /\ nextObject' = nextObject + created
                     /\ ret' = Raise("makeChannel", call.identifier, outcome)
                     /\ returned' = returned
                     /\ mcCalls' = [mcCalls EXCEPT ![i].pc = "raised"]
    /\ UNCHANGED <<connection, socket, isHandshakeComplete, lastChannelCode,
                   curMessageId, sent, allocLog>>

(***************************************************************************)
(* Instrumentation engine: the drain after the handshake                   *)
(***************************************************************************)
\* The messages buffered ahead of time: on channel code 1 or 2, a single
\* fragment or a header-only first fragment followed by two fragments with
\* payload; the header-only fragment announces the length of the whole
\* message, or 0
DrainShapes ==
    [code : {1, 2}, fragmentCount : {1}, announced : {0}]
      \cup [code : {1, 2}, fragmentCount : {3}, announced : {0, PAYLOAD_HEADER_SIZE + 1}]

\* The bytes of the message of shape d sent as message number identifier
DrainMessage(d, identifier) ==
    LET s == [identifier |-> identifier, flags |-> SendFlags(FALSE),
              conversationIndex |-> 0, fragmentCount |-> d.fragmentCount, next |-> 0]
        Bytes(k) == FragmentBytes(IF IsHeaderOnlyFragment(Fragment(d.code, s, k).header)
                                  THEN [Fragment(d.code, s, k) EXCEPT
                                           !.header.length = d.announced]
                                  ELSE Fragment(d.code, s, k))
    IN  Concat([k \in 1..d.fragmentCount |-> Bytes(k - 1)])

\* Up to MaxStream messages, and what the last chunk left out of them
DrainCuts == {0, 1, MESSAGE_HEADER_SIZE + 1}
DrainInputs ==
    UNION {{LET bytes == Concat([i \in 1..n |-> DrainMessage(shapes[i], i)])
            IN  SubSeq(bytes, 1, Len(bytes) - cut) :
               shapes \in [1..n -> DrainShapes], cut \in {c \in DrainCuts : n > 0 \/ c = 0}} :
           n \in 0..MaxStream}

DrainIdle ==
    /\ drInput = << >>
    /\ drBuffer = << >>
    /\ drPc = "buffered"

DrainInit ==
    /\ drInput \in DrainInputs
    /\ drBuffer = drInput
    /\ drPc = "buffered"

RECURSIVE DrainLoop(_)
\* while (this.readBuffer.length >= MESSAGE_HEADER_SIZE) { ... }
DrainLoop(buffer) ==
    IF Len(buffer) >= MESSAGE_HEADER_SIZE
    THEN LET header == ParseMessageHeader(SubSeq(buffer, 1, MESSAGE_HEADER_SIZE))
             totalSize == MESSAGE_HEADER_SIZE + header.length
         IN  IF Len(buffer) >= totalSize
             THEN DrainLoop(SubSeq(buffer, totalSize + 1, Len(buffer)))
             ELSE buffer
    ELSE buffer

\* drainBufferedMessages(): the buffer it leaves
DrainBufferedMessages(buffer) ==
    IF Len(buffer) = 0 THEN buffer ELSE DrainLoop(buffer)

\* performHandshake calls drainBufferedMessages
Drain ==
    /\ drPc = "buffered"
    /\ drBuffer' = DrainBufferedMessages(drBuffer)
    /\ drPc' = "drained"
    /\ UNCHANGED drInput

(***************************************************************************)
(* Specifications: one per component, the others idle                      *)
(***************************************************************************)
\* Idle state of the components added after the file operations
LateIdle == SendIdle /\ WaitIdle /\ OverlapIdle /\ DrainIdle

MoreIdle == AuxIdle /\ StreamIdle /\ LateIdle

IoIdle == WireIdle /\ CallIdle /\ MuxIdle /\ ReadIdle /\ MoreIdle

InitIdle == DvtInit /\ FragInit /\ CodecIdle /\ ArchiveIdle /\ StatIdle /\ AfcIdle /\ IoIdle

NextDvt ==
    \/ Connect /\ UNCHANGED <<fragVars, codecVars, archiveVars, statVars, afcVars, ioVars>>
    \/ \E identifier \in Identifiers : MakeChannel(identifier) /\ UNCHANGED <<fragVars, codecVars, archiveVars, statVars, afcVars, ioVars>>
    \/ Close /\ UNCHANGED <<fragVars, codecVars, archiveVars, statVars, afcVars, ioVars>>

Spec == InitIdle /\ [][NextDvt]_vars

NextFrag ==
    \/ BeginMessage /\ UNCHANGED <<dvtVars, codecVars, archiveVars, statVars, afcVars, ioVars>>
    \/ Feed /\ UNCHANGED <<dvtVars, codecVars, archiveVars, statVars, afcVars, ioVars>>
    \/ Get /\ UNCHANGED <<dvtVars, codecVars, archiveVars, statVars, afcVars, ioVars>>

SpecFrag == InitIdle /\ [][NextFrag]_vars

NextCodec ==
    \/ EncodeMessageHeader /\ UNCHANGED <<dvtVars, fragVars, archiveVars, statVars, afcVars, ioVars>>
    \/ EncodePayloadHeader /\ UNCHANGED <<dvtVars, fragVars, archiveVars, statVars, afcVars, ioVars>>
    \/ EncodeAfcHeader /\ UNCHANGED <<dvtVars, fragVars, archiveVars, statVars, afcVars, ioVars>>
    \/ DecodeHeader /\ UNCHANGED <<dvtVars, fragVars, archiveVars, statVars, afcVars, ioVars>>

InitCodec ==
    DvtInit /\ FragInit /\ CodecInit /\ ArchiveIdle /\ StatIdle /\ AfcIdle /\ IoIdle

SpecCodec == InitCodec /\ [][NextCodec]_vars

NextArchive ==
    \/ DecodeArchive /\ UNCHANGED <<dvtVars, fragVars, codecVars, statVars, afcVars, ioVars>>

InitArchive ==
    DvtInit /\ FragInit /\ CodecIdle /\ ArchiveInit /\ StatIdle /\ AfcIdle /\ IoIdle

SpecArchive == InitArchive /\ [][NextArchive]_vars

NextStat ==
    \/ StatFile /\ UNCHANGED <<dvtVars, fragVars, codecVars, archiveVars, afcVars, ioVars>>

InitStat ==
    DvtInit /\ FragInit /\ CodecIdle /\ ArchiveIdle /\ StatInit /\ AfcIdle /\ IoIdle

SpecStat == InitStat /\ [][NextStat]_vars

RmTargets == PathUniverse \cup {<<"x">>}
WriteTargets == {<<"d", "f">>, <<"d", "s", "g">>}
WriteStatuses == {"SUCCESS", "NO_SPACE_LEFT"}
AfcRest == <<dvtVars, fragVars, codecVars, archiveVars, statVars, ioVars>>

NextRm ==
    \/ (\E filePath \in RmTargets, force \in BOOLEAN : RmCall(filePath, force))
          /\ UNCHANGED AfcRest

InitRm ==
    DvtInit /\ FragInit /\ CodecIdle /\ ArchiveIdle /\ StatIdle /\ RmInit /\ IoIdle

SpecRm == InitRm /\ [][NextRm]_vars

NextWrite ==
    \/ (\E op \in {"setFileContents", "writeFromStream"}, filePath \in WriteTargets,
            chunks \in 0..MaxChunks :
            /\ op = "setFileContents" => chunks <= 1
            /\ OpenForWrite(op, filePath, chunks))
          /\ UNCHANGED AfcRest
    \/ (\E filePath \in WriteTargets, chunks \in 0..MaxChunks : Fwrite(filePath, chunks))
          /\ UNCHANGED AfcRest
    \/ (\E filePath \in WriteTargets, status \in {"SUCCESS", "PERM_DENIED"} :
            OpenForRead(filePath, status))
          /\ UNCHANGED AfcRest
    \/ (\E requested \in BOOLEAN, status \in {"SUCCESS", "READ_ERROR"} :
            Fread(requested, status))
          /\ UNCHANGED AfcRest
    \/ (\E status \in WriteStatuses : WriteChunk(status)) /\ UNCHANGED AfcRest
    \/ SourceFails /\ UNCHANGED AfcRest
    \/ Cleanup /\ UNCHANGED AfcRest
    \/ EndOfData /\ UNCHANGED AfcRest
    \/ (\E status \in WriteStatuses : Fclose(status)) /\ UNCHANGED AfcRest

InitWrite ==
    DvtInit /\ FragInit /\ CodecIdle /\ ArchiveIdle /\ StatIdle /\ AfcInit /\ IoIdle

SpecWrite == InitWrite /\ [][NextWrite]_vars

WireRest == <<dvtVars, fragVars, codecVars, archiveVars, statVars, afcVars, callVars,
              muxVars, readVars, moreVars>>

NextWire ==
    \/ (\E kind \in Kinds, left \in 0..MaxChunks :
            /\ kind = "doOperation" => left = 1
            /\ Begin(kind, left))
          /\ UNCHANGED WireRest
    \/ (\E written \in BOOLEAN : Dispatch(written)) /\ UNCHANGED WireRest
    \/ ConnectFails /\ UNCHANGED WireRest
    \/ (\E first, second \in RsdReplies : AfcConnect(first, second))
          /\ UNCHANGED WireRest
    \/ DeviceReplies /\ UNCHANGED WireRest
    \/ (\E frame \in Frames : Receive(frame)) /\ UNCHANGED WireRest
    \/ ReceiveTimeout /\ UNCHANGED WireRest
    \/ CloseService /\ UNCHANGED WireRest

SpecWire == InitIdle /\ [][NextWire]_vars

NextCall ==
    \/ Call /\ UNCHANGED <<dvtVars, fragVars, codecVars, archiveVars, statVars, afcVars,
                            wireVars, muxVars, readVars, moreVars>>

InitCall ==
    DvtInit /\ FragInit /\ CodecIdle /\ ArchiveIdle /\ StatIdle /\ AfcIdle
      /\ WireIdle /\ CallInit /\ MuxIdle /\ ReadIdle /\ MoreIdle

SpecCall == InitCall /\ [][NextCall]_vars

MuxRest == <<dvtVars, fragVars, codecVars, archiveVars, statVars, afcVars, wireVars,
             callVars, readVars, moreVars>>

NextMux ==
    \/ (\E code \in MuxCodes, shape \in MuxShapes : DeviceBegins(code, shape))
          /\ UNCHANGED MuxRest
    \/ (\E code \in MuxCodes : DeviceContinues(code)) /\ UNCHANGED MuxRest
    \/ (\E channel \in MuxChannels : RecvMessage(channel)) /\ UNCHANGED MuxRest
    \/ ResumeReceive /\ UNCHANGED MuxRest

SpecMux == InitIdle /\ [][NextMux]_vars

ReadRest == <<dvtVars, fragVars, codecVars, archiveVars, statVars, afcVars, wireVars,
              callVars, muxVars, moreVars>>

NextRead ==
    \/ (\E size \in ChunkSizes : DeviceSends(size)) /\ UNCHANGED ReadRest
    \/ (\E n \in ReadSizes : DvtReadExact(n)) /\ UNCHANGED ReadRest
    \/ (\E n \in ReadSizes : AfcReadExact(n)) /\ UNCHANGED ReadRest
    \/ DataEvent /\ UNCHANGED ReadRest
    \/ ErrorEvent /\ UNCHANGED ReadRest
    \/ PeerEnds /\ UNCHANGED ReadRest
    \/ SocketCloses /\ UNCHANGED ReadRest
    \/ CloseSocket /\ UNCHANGED ReadRest
    \/ DvtReconnect /\ UNCHANGED ReadRest
    \/ ReadTimeout /\ UNCHANGED ReadRest

InitRead ==
    DvtInit /\ FragInit /\ CodecIdle /\ ArchiveIdle /\ StatIdle /\ AfcIdle
      /\ WireIdle /\ CallIdle /\ MuxIdle /\ ReadInit /\ MoreIdle

SpecRead == InitRead /\ [][NextRead]_vars

AuxRest == <<dvtVars, fragVars, codecVars, archiveVars, statVars, afcVars, wireVars,
             callVars, muxVars, readVars, streamVars, lateVars>>

NextAux ==
    \/ ReceiveAuxiliary /\ UNCHANGED AuxRest
    \/ BuildAuxiliary /\ UNCHANGED AuxRest
    \/ ParseAuxiliary /\ UNCHANGED AuxRest

InitAux ==
    DvtInit /\ FragInit /\ CodecIdle /\ ArchiveIdle /\ StatIdle /\ AfcIdle
      /\ WireIdle /\ CallIdle /\ MuxIdle /\ ReadIdle /\ AuxInit /\ StreamIdle /\ LateIdle

SpecAux == InitAux /\ [][NextAux]_vars

StreamRest == <<dvtVars, fragVars, codecVars, archiveVars, statVars, afcVars, wireVars,
                callVars, muxVars, readVars, auxVars, lateVars>>

NextStream ==
    \/ ReadRequest /\ UNCHANGED StreamRest
    \/ ReadEnds /\ UNCHANGED StreamRest
    \/ (\E reply \in StreamReplies : ReadResponse(reply)) /\ UNCHANGED StreamRest
    \/ WriteRequest /\ UNCHANGED StreamRest
    \/ WriteEnds /\ UNCHANGED StreamRest
    \/ (\E reply \in StreamReplies : WriteResponse(reply)) /\ UNCHANGED StreamRest
    \/ CloseRequest /\ UNCHANGED StreamRest
    \/ (\E reply \in StreamReplies : CloseResponse(reply)) /\ UNCHANGED StreamRest
    \/ ReceiveFails /\ UNCHANGED StreamRest

InitStream ==
    DvtInit /\ FragInit /\ CodecIdle /\ ArchiveIdle /\ StatIdle /\ AfcIdle
      /\ WireIdle /\ CallIdle /\ MuxIdle /\ ReadIdle /\ AuxIdle /\ StreamInit /\ LateIdle

SpecStream == InitStream /\ [][NextStream]_vars

\* The device answers each request and the event loop runs the continuation
\* that is due: a step that stays possible is taken.
SpecStreamLive == InitStream /\ [][NextStream]_vars /\ WF_vars(NextStream)

\* The event loop runs every event that is due: a socket the engine closed
\* emits its 'close' event, a chunk that has arrived is emitted as 'data',
\* and a timer that was armed fires.
SpecReadLive ==
    /\ InitRead /\ [][NextRead]_vars
    /\ WF_vars(SocketCloses /\ UNCHANGED ReadRest)
    /\ WF_vars(DataEvent /\ UNCHANGED ReadRest)
    /\ WF_vars(ReadTimeout /\ UNCHANGED ReadRest)


\* The components before the late ones
earlyVars == <<dvtVars, fragVars, codecVars, archiveVars, statVars, afcVars, wireVars,
               callVars, muxVars, readVars, auxVars, streamVars>>

SendRest == <<earlyVars, waitVars, overlapVars, drainVars>>

NextSend ==
    \/ (\E payload \in StreamData : SendDispatch(payload)) /\ UNCHANGED SendRest
    \/ WriteCallback /\ UNCHANGED SendRest

SpecSend == InitIdle /\ [][NextSend]_vars

WaitRest == <<earlyVars, sendVars, overlapVars, drainVars>>

NextWait ==
    \/ (\E size \in ChunkSizes : WaitDeviceSends(size)) /\ UNCHANGED WaitRest
    \/ (\E n \in ReadSizes : WaitReadExact(n)) /\ UNCHANGED WaitRest
    \/ WaitData /\ UNCHANGED WaitRest
    \/ (\E i \in 1..MaxReads : WaitTimeout(i)) /\ UNCHANGED WaitRest

SpecWait == InitIdle /\ [][NextWait]_vars

OverlapRest == <<fragVars, codecVars, archiveVars, statVars, afcVars, wireVars, callVars,
                 muxVars, readVars, auxVars, streamVars, sendVars, waitVars, drainVars>>

NextOverlap ==
    \/ Connect /\ UNCHANGED <<mcCalls, OverlapRest>>
    \/ (\E identifier \in Identifiers : MakeChannelBegins(identifier)) /\ UNCHANGED OverlapRest
    \/ (\E i \in 1..MaxOverlap : MakeChannelResumes(i)) /\ UNCHANGED OverlapRest

SpecOverlap == InitIdle /\ [][NextOverlap]_vars

DrainRest == <<earlyVars, sendVars, waitVars, overlapVars>>

NextDrain == Drain /\ UNCHANGED DrainRest

InitDrain ==
    DvtInit /\ FragInit /\ CodecIdle /\ ArchiveIdle /\ StatIdle /\ AfcIdle
      /\ WireIdle /\ CallIdle /\ MuxIdle /\ ReadIdle /\ AuxIdle /\ StreamIdle
      /\ SendIdle /\ WaitIdle /\ OverlapIdle /\ DrainInit

SpecDrain == InitDrain /\ [][NextDrain]_vars

(***************************************************************************)
(* Claims about the instrumentation engine                                 *)
(***************************************************************************)

\* C1: once makeChannel(identifier) has returned a Channel on the current
\* connection, every later non-overlapping makeChannel(identifier) returns
\* that identical Channel object, writes no message to the socket and
\* allocates no channel code.
C1_MakeChannelIdempotent ==
    [][\A i \in Identifiers :
          (ret'.op = "makeChannel" /\ ret'.id = i /\ returned[i] # NoChannel)
          => /\ ret'.kind = "return"
             /\ ret'.val = returned[i]
             /\ sent' = sent
             /\ lastChannelCode' = lastChannelCode
             /\ allocLog' = allocLog]_vars

\* C1 witness: a second makeChannel was answered from the cache with the
\* Channel the first call created, after one channel request was sent.
C1_Witness ==
    /\ ret.op = "makeChannel"
    /\ ret.kind = "return"
    /\ ret.from = "cache"
    /\ ret.val = returned[ret.id]
    /\ Cardinality({k \in 1..Len(sent) :
                      /\ sent[k].selector = RequestChannelSelector
                      /\ sent[k].args[2] = ret.id}) = 1

\* C2: no two identifiers of the channel cache share a channel code, and the
\* codes allocated by cache misses are 1, 2, 3, ... in order, each one more
\* than the last allocated, across raised makeChannel calls and across
\* close()/connect().
C2_CodesDistinctSequential ==
    /\ \A i, j \in DOMAIN channelCache :
          i # j => channelCache[i].code # channelCache[j].code
    /\ \A k \in 1..Len(allocLog) : allocLog[k] = k
    /\ lastChannelCode = Len(allocLog)
    /\ \A i \in DOMAIN channelCache : channelCache[i].code \in 1..lastChannelCode

\* C2 witness: two identifiers are cached after a makeChannel raised and
\* after a close() that cancelled a channel, followed by a new connect().
C2_Witness ==
    /\ Cardinality(DOMAIN channelCache) = 2
    /\ Len(allocLog) = 4
    /\ \E k \in 1..Len(sent) : sent[k].selector = ChannelCanceledSelector
    /\ \E c \in 1..Len(allocLog) :
          /\ \A i \in DOMAIN channelCache : channelCache[i].code # c
          /\ \A k \in 1..Len(sent) :
                sent[k].selector = ChannelCanceledSelector => c \notin sent[k].args

\* C13: a connect() that opens the stream hands the capabilities announcement
\* (channel 0, expectsReply = false) to the socket before it reads anything;
\* the handshake flag is set only by a connect() that read a reply whose
\* selector is '_notifyOfPublishedCapabilities:' and whose auxiliary list is
\* not empty, and only on a connected engine; a reply with another selector
\* or without auxiliary data makes connect() raise and leaves the flag unset;
\* makeChannel on an engine whose flag is unset raises, sends nothing and
\* allocates no code.
C13_HandshakeBeforeReady ==
    [][/\ (~connection /\ connection') =>
            /\ sent' = Append(sent, [channel |-> 0,
                                     selector |-> "_notifyOfPublishedCapabilities:",
                                     args |-> <<"capabilities">>,
                                     expectsReply |-> FALSE,
                                     identifier |-> curMessageId + 1,
                                     fragmentId |-> 0, fragmentCount |-> 1])
            /\ lastReply'.io = "writeFail" =>
                  (channelMessages' = channelMessages /\ lastReply'.seen = {})
       /\ (~isHandshakeComplete /\ isHandshakeComplete') =>
            /\ ~connection /\ connection'
            /\ ret'.op = "connect" /\ ret'.kind = "return"
            /\ lastReply'.io = "read"
            /\ lastReply'.selector = "_notifyOfPublishedCapabilities:"
            /\ Len(lastReply'.aux) > 0
       /\ isHandshakeComplete' => connection'
       /\ (/\ ret'.op = "connect"
           /\ lastReply'.io = "read"
           /\ (lastReply'.selector # "_notifyOfPublishedCapabilities:"
                 \/ Len(lastReply'.aux) = 0)) =>
            (ret'.kind = "raise" /\ ~isHandshakeComplete')
       /\ (ret'.op = "makeChannel" /\ ~isHandshakeComplete) =>
            /\ ret'.kind = "raise"
            /\ sent' = sent
            /\ lastChannelCode' = lastChannelCode
            /\ allocLog' = allocLog
            /\ curMessageId' = curMessageId]_vars

\* C13 witness: connect() read a reply with the right selector and no
\* auxiliary data, raised, and a makeChannel on the connected engine that is
\* not ready raised after it without a second message being sent.
C13_Witness ==
    /\ ret.op = "makeChannel"
    /\ ret.kind = "raise"
    /\ ret.val = "handshake"
    /\ connection
    /\ ~isHandshakeComplete
    /\ Len(sent) = 1
    /\ sent[1].selector = HandshakeSelector
    /\ lastChannelCode = 0

\* The non-broadcast codes of a reassembler map
C14_NonBroadcast(cm) == {c \in DOMAIN cm : c # 0}
C14_Cancellation(codes, identifier) ==
    [channel |-> 0, selector |-> "_channelCanceled:", args |-> codes,
     expectsReply |-> FALSE, identifier |-> identifier,
     fragmentId |-> 0, fragmentCount |-> 1]
\* What close() leaves of the per-channel state
C14_TornDown ==
    /\ ~connection' /\ ~socket'
    /\ ~isHandshakeComplete'
    /\ channelCache' = << >>
    /\ DOMAIN channelMessages' = {0}
    /\ \A c \in DOMAIN channelMessages : channelMessages'[0] # channelMessages[c]
C14_NotConnected ==
    (ret'.op = "close" /\ ~connection) =>
        UNCHANGED <<connection, socket, isHandshakeComplete, lastChannelCode,
                    curMessageId, channelCache, channelMessages, sent,
                    nextObject, returned, allocLog>>

\* C14 as stated: every close() of a connected engine sends one cancellation
\* message listing the active non-broadcast channel codes, then tears down.
C14_CloseAlwaysCancels ==
    [][/\ ((ret'.op = "close" /\ connection) =>
             /\ sent' = Append(sent, C14_Cancellation(C14_NonBroadcast(channelMessages),
                                                      curMessageId + 1))
             /\ C14_TornDown)
       /\ C14_NotConnected]_vars

\* C14, amended: close() of a connected engine with at least one non-broadcast
\* reassembler hands one cancellation message (channel 0, expectsReply =
\* false) listing every such code to the socket, and with none it sends
\* nothing; whether or not the write fails, the engine is then disconnected
\* and not ready, the cache is empty and the reassembler map holds only a new
\* reassembler for channel 0; close() of an engine that is not connected
\* sends nothing and changes nothing.
C14_CloseCancelsActiveChannels ==
    [][/\ ((ret'.op = "close" /\ connection) =>
             /\ IF C14_NonBroadcast(channelMessages) # {}
                THEN sent' = Append(sent,
                                    C14_Cancellation(C14_NonBroadcast(channelMessages),
                                                     curMessageId + 1))
                ELSE sent' = sent
             /\ C14_TornDown)
       /\ C14_NotConnected]_vars

\* C14 witness: close() cancelled two codes, one of a cached Channel and one
\* of a reassembler created for a message read, the write failed, and the
\* engine is torn down.
C14_Witness ==
    /\ ret.op = "close"
    /\ lastReply.io = "writeFail"
    /\ ~connection
    /\ ~isHandshakeComplete
    /\ channelCache = << >>
    /\ DOMAIN channelMessages = {0}
    /\ sent[Len(sent)].selector = ChannelCanceledSelector
    /\ sent[Len(sent)].args = {1, 2}

\* A decoded reply that carries an error indicator
C17_ErrorOn(props) == props \cap {"NSCode", "NSUserInfo", "NSDomain"} # {}
C17_ErrorInTable(r) ==
    \E i \in 1..Len(r.objects) : r.objects[i].object /\ C17_ErrorOn(r.objects[i].props)
C17_Raised ==
    /\ ret'.kind = "raise"
    /\ ret'.val = "nsError"
    /\ channelCache' = channelCache
    /\ ret'.id \notin DOMAIN channelCache'
C17_Retry ==
    (/\ ret.op = "makeChannel" /\ ret.kind = "raise" /\ ret.val = "nsError"
     /\ ret'.op = "makeChannel" /\ ret'.id = ret.id) =>
        /\ lastChannelCode' = lastChannelCode + 1
        /\ sent' = Append(sent, [channel |-> 0,
                                 selector |-> "_requestChannelWithCode:identifier:",
                                 args |-> <<lastChannelCode + 1, ret.id>>,
                                 expectsReply |-> TRUE,
                                 identifier |-> curMessageId + 1,
                                 fragmentId |-> 0, fragmentCount |-> 1])

\* C17 as stated: an error indicator on the reply or on any entry of its
\* object table makes makeChannel raise, with no Channel cached and no
\* reassembler for the allocated code.
C17_ErrorReplyRaises ==
    [][/\ (/\ ret'.op = "makeChannel"
           /\ lastReply'.io = "read"
           /\ lastReply'.object
           /\ (C17_ErrorOn(lastReply'.props) \/ C17_ErrorInTable(lastReply'))) =>
            (C17_Raised /\ lastChannelCode' \notin DOMAIN channelMessages')
       /\ C17_Retry]_vars

\* C17, amended: makeChannel raises when the decoded reply is an object that
\* has one of the properties NSCode, NSUserInfo, NSDomain, or whose object
\* table has more than one entry and an entry with one of them; then no
\* Channel is cached for the identifier and makeChannel registers no
\* reassembler (the map gains only the codes of the messages read while
\* waiting for the reply), and a later makeChannel for the identifier sends a
\* new request with the next code.
C17_ErrorReplyRaisesForTable ==
    [][/\ (/\ ret'.op = "makeChannel"
           /\ lastReply'.io = "read"
           /\ lastReply'.object
           /\ (C17_ErrorOn(lastReply'.props)
                 \/ (Len(lastReply'.objects) > 1 /\ C17_ErrorInTable(lastReply')))) =>
            /\ C17_Raised
            /\ DOMAIN channelMessages' = DOMAIN channelMessages \cup lastReply'.seen
       /\ C17_Retry]_vars

\* C17 witness: the second makeChannel for an identifier, sent with the next
\* code after the first one failed, raised for an error entry in the object
\* table of its reply, and the identifier is not cached.
C17_Witness ==
    /\ ret.op = "makeChannel"
    /\ ret.kind = "raise"
    /\ ret.val = "nsError"
    /\ Len(lastReply.objects) > 1
    /\ ~C17_ErrorOn(lastReply.props)
    /\ allocLog = <<1, 2>>
    /\ Len(sent) = 3
    /\ sent[2].args = <<1, ret.id>>
    /\ sent[3].args = <<2, ret.id>>
    /\ ret.id \notin DOMAIN channelCache

\* C21: each channel code has one fragment reassembler for the life of the
\* connection: a call other than close() leaves the reassembler of every code
\* that has one in place, so what it has buffered stays retrievable.
C21_OneReassemblerPerCode ==
    [][ret'.op # "close" =>
          \A c \in DOMAIN channelMessages :
             c \in DOMAIN channelMessages' /\ channelMessages'[c] = channelMessages[c]]_vars

\* makeChannel returned a new Channel whose code had a reassembler, because a
\* header for that code was read while the reply was awaited, and the code's
\* reassembler is now the one makeChannel created after the reply.
C21_Witness ==
    /\ ret.op = "makeChannel" /\ ret.kind = "return" /\ ret.from = "new"
    /\ ret.val.code \in lastReply.seen
    /\ channelMessages[ret.val.code] = ret.val.oid + 1

\* C30: every connect() that returns normally leaves the engine Ready
\* (handshake complete, makeChannel permitted), for every sequence of
\* connect() and close() calls.
C30_ConnectLeavesReady ==
    (ret.op = "connect" /\ ret.kind = "return") => isHandshakeComplete

\* A connect() raised during the handshake; the next connect() found the
\* connection object in place and returned without a handshake.
C30_Witness ==
    /\ ret.op = "connect" /\ ret.kind = "return"
    /\ connection /\ ~isHandshakeComplete
    /\ Len(sent) = 1 /\ sent[1].selector = HandshakeSelector

(***************************************************************************)
(* Claims about the fragment reassembler                                   *)
(***************************************************************************)

\* C3: for fragments 0..k of a message fed in order, get() returns none while
\* no message is complete; after fragment k the message returned is the
\* concatenation of the k+1 payloads in order, exactly once; the accumulator
\* is then empty and a further get() returns none.
C3_Reassembly ==
    /\ popped \o messages = completed
    /\ lastGet.isNone = (lastGet.owed = 0)
    /\ ~lastGet.isNone => popped # << >> /\ lastGet.result = popped[Len(popped)]
    /\ IF cur.fragmentId < cur.fragmentCount
       THEN /\ (cur.channelCode >= 0 => packetData = cur.payload /\ streamPacketData = << >>)
            /\ (cur.channelCode < 0 => streamPacketData = cur.payload /\ packetData = << >>)
       ELSE packetData = << >> /\ streamPacketData = << >>

\* C3 witness: a three-fragment message with non-empty payloads was fed, get()
\* returned its concatenation, and a further get() returned none.
C3_Witness ==
    /\ cur.fragmentCount = 3
    /\ cur.fragmentId = 3
    /\ cur.payload = <<1, 2, 3, 1>>
    /\ popped # << >>
    /\ popped[Len(popped)] = <<1, 2, 3, 1>>
    /\ lastGet = [isNone |-> TRUE, result |-> << >>, owed |-> 0]
    /\ messages = << >>

(***************************************************************************)
(* Claims about the frame codecs                                           *)
(***************************************************************************)

\* C4: parsing the bytes built from an in-range instrumentation message
\* header or payload header returns the same header field for field (the
\* channel code keeps its sign), and readAfcHeader on the bytes of
\* encodeHeader returns the magic, entire-length (40 + payload length),
\* this-length (the override when given, else the entire-length), packet
\* number and operation that were encoded.
C4_HeaderRoundTrip ==
    /\ codecPc = "encoded" =>
          Len(codecBytes) = CASE codecIn.kind = "message" -> MESSAGE_HEADER_SIZE
                              [] codecIn.kind = "payload" -> PAYLOAD_HEADER_SIZE
                              [] codecIn.kind = "afc" -> AFC_HEADER_SIZE
    /\ codecPc = "decoded" =>
          CASE codecIn.kind = "afc" ->
                 codecOut = [kind |-> "afc",
                             magic |-> AFCMAGIC,
                             entireLength |-> 40 + codecIn.payloadLen,
                             thisLength |->
                                 IF codecIn.thisLenOverride = Omitted
                                 THEN 40 + codecIn.payloadLen
                                 ELSE codecIn.thisLenOverride[1],
                             packetNum |-> codecIn.packetNum,
                             operation |-> codecIn.op]
            [] OTHER -> codecOut = codecIn

\* C4 case reached: a WRITE header with the this-length override and a 64 KiB
\* payload went through encodeHeader and readAfcHeader.
C4_Witness ==
    /\ codecPc = "decoded"
    /\ codecIn.kind = "afc"
    /\ codecOut.thisLength = AFC_WRITE_THIS_LENGTH
    /\ codecOut.entireLength = AFC_HEADER_SIZE + 65536

\* C22: decoding an instrumentation message header throws when the buffer is
\* shorter than the 32-byte header or when its magic field is not 0x1F3D5B79,
\* so that no header with a wrong magic is handed to recvPacketFragments.
C22_BadHeaderThrows ==
    (codecPc = "decoded" /\ codecIn.kind = "message") =>
       ((\/ Len(codecBytes) < MESSAGE_HEADER_SIZE
         \/ ReadUIntLE(codecBytes, 0, 4) # MESSAGE_HEADER_MAGIC) => codecOut = Thrown)

\* Thirty-two bytes whose magic field is 0 were decoded into a header.
C22_Witness ==
    /\ codecPc = "decoded" /\ codecIn.kind = "message"
    /\ Len(codecBytes) = MESSAGE_HEADER_SIZE
    /\ ReadUIntLE(codecBytes, 0, 4) = 0
    /\ codecOut # Thrown
    /\ codecOut.magic = 0 /\ codecOut.channelCode = codecIn.channelCode

(***************************************************************************)
(* Claims about the archive decoder                                        *)
(***************************************************************************)

\* The decodeObject calls and object-field references of the finished decode.
C5_Log == arResult.st.log
C5_Calls == {i \in 1..Len(C5_Log) : C5_Log[i].kind = "call"}
C5_Fields == {i \in 1..Len(C5_Log) : C5_Log[i].kind = "field"}

C6_Target(ref) == IF ref.t = "uid" THEN ref.uid ELSE ref.v
C6_RootIndex == IF arTop.t = "absent" THEN 1 ELSE C6_Target(arTop)
C6_Root == arObjects[C6_RootIndex + 1]
C6_IsPrimitive(e) == e.t \in {"str", "num", "null"}

\* Every reference names an entry of the table that decodes to itself.
C6_Flat(refs) ==
    \A i \in 1..Len(refs) :
        /\ C6_Target(refs[i]) \in 0..(Len(arObjects) - 1)
        /\ C6_IsPrimitive(arObjects[C6_Target(refs[i]) + 1])

C6_Decoded(ref) == arObjects[C6_Target(ref) + 1]

RECURSIVE C6_Pairs(_, _, _, _)
C6_Pairs(keys, objs, i, acc) ==
    IF i > Len(keys) \/ i > Len(objs) THEN acc
    ELSE C6_Pairs(keys, objs, i + 1,
                  IF C6_Decoded(keys[i]).t = "str"
                  THEN Put(acc, C6_Decoded(keys[i]).v, C6_Decoded(objs[i]))
                  ELSE acc)

\* C6: an entry with NS.keys and NS.objects decodes to the mapping whose i-th
\* pair is (decoded key i, decoded value i) for the keys that decode to
\* strings, and an entry with NS.objects only decodes to the ordered sequence
\* of its decoded elements; checked where every reference, in number or
\* wrapper form, names a string, number or null entry.
C6_DictionaryAndArray ==
    (arPc = "decoded" /\ arDepth = 0) =>
        /\ (C6_Root.t = "dict" /\ C6_Flat(C6_Root.keys) /\ C6_Flat(C6_Root.objs))
              => arResult.val = JsObject(C6_Pairs(C6_Root.keys, C6_Root.objs, 1, << >>))
        /\ (C6_Root.t = "array" /\ C6_Flat(C6_Root.objs))
              => arResult.val = JsArray([i \in 1..Len(C6_Root.objs) |->
                                            C6_Decoded(C6_Root.objs[i])])

\* C6 case reached: a dictionary whose key and value references are wrappers
\* naming string entries has been decoded.
C6_Witness ==
    /\ arPc = "decoded"
    /\ arDepth = 0
    /\ C6_Root.t = "dict"
    /\ C6_Flat(C6_Root.keys)
    /\ C6_Flat(C6_Root.objs)
    /\ \E i \in 1..Len(C6_Root.keys) :
          /\ C6_Root.keys[i].t = "uid"
          /\ C6_Decoded(C6_Root.keys[i]).t = "str"

(***************************************************************************)
(* Claims about the file conduit                                           *)
(***************************************************************************)

\* The fields stat types itself, and the keys of what it returned.
C7_TypedFields == {"st_size", "st_blocks", "st_mtime", "st_birthtime", "st_nlink"}
C7_Keys == {statOut.v[i].k : i \in 1..Len(statOut.v)}
C7_ReplyKeys ==
    {"st_blocks", "st_nlink", "st_ifmt"}
    \cup (IF statIn.size = Missing THEN {} ELSE {"st_size"})
    \cup (IF statIn.mtime = Missing THEN {} ELSE {"st_mtime"})
    \cup (IF statIn.birthtime = Missing THEN {} ELSE {"st_birthtime"})
    \cup (IF statIn.extra = "" THEN {} ELSE {statIn.extra})
C7_ReplyText(k) == IF k = "st_ifmt" THEN <<statIn.ifmt>> ELSE <<"x">>

C8_Removes == {i \in 1..Len(afcLog) : afcLog[i].op = "REMOVE_PATH"}
C8_Subtree == {path \in DOMAIN afcBefore : Under(afcCall.path, path)}
C8_RemoveOf(path) == CHOOSE i \in C8_Removes : afcLog[i].path = path

\* C8: after rm(dir) on a directory tree in which the device refuses no
\* removal, every path of the tree got exactly one remove request, the request
\* of every descendant came before the request of its parent, the last
\* request of the operation was the removal of dir itself, nothing of the
\* tree is left, and rm returned an empty failure list.
C8_DepthFirstRemoval ==
    (/\ afcCall.op = "rm"
     /\ afcCall.path \in DOMAIN afcBefore
     /\ afcBefore[afcCall.path] = "S_IFDIR"
     /\ C8_Subtree \cap afcDenied = {}) =>
        /\ ~afcRet.thrown
        /\ afcRet.failed = << >>
        /\ \A path \in C8_Subtree :
              /\ \E i \in C8_Removes : afcLog[i].path = path
              /\ \A i, j \in C8_Removes :
                    (afcLog[i].path = path /\ afcLog[j].path = path) => i = j
              /\ afcLog[C8_RemoveOf(path)].status = "SUCCESS"
        /\ \A path \in C8_Subtree \ {afcCall.path} :
              C8_RemoveOf(path) < C8_RemoveOf(Parent(path))
        /\ C8_RemoveOf(afcCall.path) = Len(afcLog)
        /\ DOMAIN afcFs = DOMAIN afcBefore \ C8_Subtree

\* C8 case reached: rm of a directory holding one file and one empty
\* subdirectory has removed the two children, then the directory.
C8_Witness ==
    /\ afcCall.op = "rm"
    /\ afcCall.path = <<"d">>
    /\ DOMAIN afcBefore = {<<"d">>, <<"d", "e">>, <<"d", "f">>}
    /\ afcDenied = {}
    /\ LET removes == SelectSeq(afcLog, LAMBDA r : r.op = "REMOVE_PATH")
       IN  [i \in 1..Len(removes) |-> removes[i].path]
              = << <<"d", "e">>, <<"d", "f">>, <<"d">> >>
    /\ afcRet = [thrown |-> FALSE, failed |-> << >>]
    /\ DOMAIN afcFs = {}

\* C9: rm of a path that does not exist returns without raising and without
\* a remove request; the failure list is empty with force and is [path]
\* without it.
C9_RmMissingPath ==
    (afcCall.op = "rm" /\ afcCall.path \notin DOMAIN afcBefore) =>
        /\ ~afcRet.thrown
        /\ afcRet.failed = (IF afcCall.force THEN << >> ELSE <<afcCall.path>>)
        /\ C8_Removes = {}
        /\ afcFs = afcBefore

\* C9 case reached: a forced rm of a missing path has returned, having asked
\* the device only for the file information.
C9_Witness ==
    /\ afcCall.op = "rm"
    /\ afcCall.force
    /\ afcCall.path \notin DOMAIN afcBefore
    /\ afcBefore # << >>
    /\ Len(afcLog) = 1
    /\ afcLog[1].op = "GET_FILE_INFO"
    /\ afcLog[1].status = "OBJECT_NOT_FOUND"
    /\ afcRet = [thrown |-> FALSE, failed |-> << >>]

\* The WRITE requests of the last operation that the device refused.
C10_FailedWrites ==
    {i \in 1..Len(afcLog) : afcLog[i].op = "WRITE" /\ afcLog[i].status # "SUCCESS"}
C10_Finished(ops) == afcPc = "idle" /\ afcCall.op \in ops

\* C10: when the device refuses a WRITE, fwrite raises at once, and
\* setFileContents and writeFromStream raise after sending no further WRITE, a
\* forced remove of the target path and then the close of the handle; the
\* target path is gone from the device when the device accepted that remove,
\* and is left behind when the device refused it.
C10_WriteFailureCleanup ==
    /\ (C10_Finished({"fwrite"}) /\ C10_FailedWrites # {}) =>
          /\ afcRet.thrown
          /\ afcLog[Len(afcLog)].op = "WRITE"
          /\ Len(afcLog) \in C10_FailedWrites
    /\ (C10_Finished({"setFileContents", "writeFromStream"}) /\ C10_FailedWrites # {}) =>
          /\ afcRet.thrown
          /\ \E i \in C10_FailedWrites :
                /\ i = Len(afcLog) - 2
                /\ afcLog[i + 1].op = "REMOVE_PATH"
                /\ afcLog[i + 1].path = afcCall.path
                /\ afcLog[i + 2].op = "FILE_CLOSE"
                /\ (afcLog[i + 1].status = "SUCCESS") = (afcCall.path \notin DOMAIN afcFs)

\* C10 case reached: writeFromStream has raised after its second WRITE was
\* refused and the remove that followed was accepted.
C10_Witness ==
    /\ C10_Finished({"writeFromStream"})
    /\ afcRet.thrown
    /\ Len(afcLog) = 5
    /\ afcLog[2].op = "WRITE" /\ afcLog[2].status = "SUCCESS"
    /\ afcLog[3].op = "WRITE" /\ afcLog[3].status # "SUCCESS"
    /\ afcLog[4].op = "REMOVE_PATH" /\ afcLog[4].status = "SUCCESS"
    /\ afcCall.path \notin DOMAIN afcFs

\* C10 as stated: when the device refuses a WRITE, the operation raises and,
\* for setFileContents and writeFromStream, a forced remove of the target path
\* has been issued and the target path does not exist on the device.
C10_NoFileLeftBehind ==
    /\ (C10_Finished({"fwrite"}) /\ C10_FailedWrites # {}) => afcRet.thrown
    /\ (C10_Finished({"setFileContents", "writeFromStream"}) /\ C10_FailedWrites # {}) =>
          /\ afcRet.thrown
          /\ \E i \in 1..Len(afcLog) :
                afcLog[i].op = "REMOVE_PATH" /\ afcLog[i].path = afcCall.path
          /\ afcCall.path \notin DOMAIN afcFs

(***************************************************************************)
(* Claims about the file conduit's packets and responses                   *)
(***************************************************************************)
\* C11: the packets one AfcService dispatches, from _doOperation, fwrite or
\* a stream, whether or not the write or the operation succeeds, carry the
\* numbers 0, 1, 2, ... in order, each one greater than the one before, and
\* no number goes twice to a connection.
C11_PacketNumbersIncrease ==
    /\ \A i \in 1..Len(afcWire) :
          afcWire[i].num = IF i = 1 THEN 0 ELSE afcWire[i - 1].num + 1
    /\ \A i, j \in 1..Len(afcWire) :
          (i # j /\ afcWire[i].conn = afcWire[j].conn) => afcWire[i].num # afcWire[j].num

\* A write stream has dispatched the third packet of the service, on its
\* second connection, after a packet that was not written
C11_Witness ==
    /\ Len(afcWire) = 3
    /\ afcOp.kind = "writeStream"
    /\ afcOp.pc = "receive"
    /\ afcOp.packets = 2
    /\ {afcWire[i].conn : i \in 1..3} = {1, 2}
    /\ \E i \in 1..2 : ~afcWire[i].written

C12_Sent == Cardinality({i \in 1..Len(afcWire) : afcWire[i].written})

\* C12: a _doOperation whose packet was written has dispatched exactly one
\* packet and consumed exactly one response when it ends; it raises for a
\* STATUS response that is not success (the object-not-found error for
\* OBJECT_NOT_FOUND), returns the payload of a response that is not a STATUS
\* response, and otherwise returns without raising; and between operations
\* that do not overlap, as many responses were consumed as packets were sent.
C12_OneResponsePerOperation ==
    /\ (afcOp.kind = "doOperation" /\ afcOp.pc = "idle"
          /\ afcOp.packets > 0 /\ afcWire[Len(afcWire)].written) =>
          /\ afcOp.packets = 1
          /\ afcOp.responses = 1
          /\ IF afcOp.frame.operation = "STATUS"
             THEN afcOp.ret.thrown =
                    (CASE afcOp.frame.payload[1] = "SUCCESS" -> "none"
                       [] afcOp.frame.payload[1] = "OBJECT_NOT_FOUND" -> "objectNotFound"
                       [] OTHER -> "failed")
             ELSE afcOp.ret = Outcome("none", afcOp.frame.payload)
    /\ afcOp.pc = "idle" => afcConsumed = C12_Sent

\* A _doOperation has ended with a timeout after its packet was written
C12_Witness ==
    /\ afcOp.kind = "doOperation"
    /\ afcOp.pc = "idle"
    /\ afcOp.ret.thrown = "timeout"
    /\ afcWire[Len(afcWire)].written
    /\ afcConsumed < C12_Sent

(***************************************************************************)
(* Claims about Channel                                                    *)
(***************************************************************************)
RECURSIVE C18_Segments(_, _)
\* The segments of a name between underscores, given the segment being read
C18_Segments(str, segment) ==
    IF str = << >> THEN <<segment>>
    ELSE IF Head(str) = "_" THEN <<segment>> \o C18_Segments(Tail(str), << >>)
    ELSE C18_Segments(Tail(str), Append(segment, Head(str)))

RECURSIVE C18_ColonAfterEach(_)
C18_ColonAfterEach(segments) ==
    IF segments = << >> THEN << >>
    ELSE Head(segments) \o <<":">> \o C18_ColonAfterEach(Tail(segments))

\* The selector of the convention, for a name (after the leading underscore,
\* if any) made of non-empty segments
C18_Selector(name) ==
    LET marker == IF name # << >> /\ Head(name) = "_" THEN <<"_">> ELSE << >>
        rest == IF marker = << >> THEN name ELSE Tail(name)
        segments == C18_Segments(rest, << >>)
    IN  IF Len(segments) = 1 THEN name
        ELSE marker \o C18_ColonAfterEach(segments)

C18_WellFormed(name) ==
    LET rest == IF name # << >> /\ Head(name) = "_" THEN Tail(name) ELSE name
        segments == C18_Segments(rest, << >>)
    IN  \A i \in 1..Len(segments) : segments[i] # << >>

\* C18: call(name) sends the name with every underscore-separated segment
\* followed by a colon and a leading underscore kept: a name without a
\* separator unchanged, 'm_n' as 'm:n:', '_m_n' as '_m:n:'.
C18_SelectorConvention ==
    (callPc = "sent" /\ C18_WellFormed(callName)) => callSent = C18_Selector(callName)

\* call('m_n') has sent its selector
C18_Witness ==
    /\ callPc = "sent"
    /\ callName = <<"m", "_", "n">>
    /\ callSent = <<"m", ":", "n">>


(***************************************************************************)
(* Claims about receiving multiplexed messages                             *)
(***************************************************************************)
\* C19: recvMessage raises 'Compressed messages not supported' exactly for the
\* messages whose payload-header flags carry a non-zero compression
\* indicator, and a message whose flags are those sendMessage writes, for
\* either value of expectsReply, is not rejected.
C19_RejectsOnlyCompressed ==
    muxRet.status \in {"returned", "compressed"} =>
       /\ (muxRet.status = "compressed") <=> ((muxRet.flags \div 4096) % 256 # 0)
       /\ muxRet.flags \in {INSTRUMENTS_MESSAGE_TYPE,
                             INSTRUMENTS_MESSAGE_TYPE + EXPECTS_REPLY_MASK}
             => muxRet.status = "returned"

\* A message with the flags sendMessage writes for expectsReply = true was
\* received and rejected as compressed.
C19_Witness ==
    /\ muxRet.status = "compressed"
    /\ muxRet.flags = INSTRUMENTS_MESSAGE_TYPE + EXPECTS_REPLY_MASK
    /\ muxRet.flags = SendFlags(TRUE)

C20_IsPrefix(s, t) == Len(s) <= Len(t) /\ s = SubSeq(t, 1, Len(s))

\* The message is not compressed: no bit of the compression field other
\* than the expects-reply bit is set in its payload-header flags.
C20_WellFormed(message) == (ReadUIntLE(message, 0, 4) \div 8192) % 128 = 0

C20_Queued(c) == IF c \in DOMAIN muxChannels THEN muxChannels[c].messages ELSE << >>

\* Nothing of channel c is on its way: no unread fragment and no message in progress
C20_Quiet(c) ==
    /\ muxWire = << >>
    /\ \A code \in MuxCodes :
          Abs(code) = c => muxSending[code].next = muxSending[code].fragmentCount

\* C20: non-overlapping recvMessage calls return for each channel c exactly
\* the well-formed messages whose absolute channel code is c, each once and
\* in stream order; a message read while another channel is waited on is
\* kept in its channel's reassembler: once nothing is on its way, the
\* messages returned followed by the messages queued are the messages sent.
C20_DeliveredInOrder ==
    \A c \in MuxChannels :
       /\ C20_IsPrefix(muxDelivered[c], SelectSeq(muxExpected[c], C20_WellFormed))
       /\ C20_Quiet(c) =>
             muxDelivered[c] \o SelectSeq(C20_Queued(c), C20_WellFormed)
                = SelectSeq(muxExpected[c], C20_WellFormed)

\* recvMessage(1) returned the message of channel 1; the message of channel
\* 2, sent with the expects-reply flag, was then consumed by recvMessage(2)
\* and not returned.
C20_Witness ==
    /\ muxRet.channel = 2 /\ muxRet.status = "compressed"
    /\ muxRet.flags = SendFlags(TRUE)
    /\ Len(muxDelivered[1]) = 1 /\ Len(muxExpected[1]) = 1
    /\ Len(muxDelivered[2]) = 0 /\ Len(muxExpected[2]) = 1
    /\ C20_Quiet(2) /\ C20_Queued(2) = << >>

\* The messages the compression check lets through are delivered to their
\* channel once and in order, and none is dropped.
MuxAccepted(message) == Compression(ReadUIntLE(message, 0, 4)) = 0

MuxDeliversAccepted ==
    \A c \in MuxChannels :
       /\ C20_IsPrefix(muxDelivered[c], SelectSeq(muxExpected[c], MuxAccepted))
       /\ C20_Quiet(c) =>
             muxDelivered[c] \o SelectSeq(C20_Queued(c), MuxAccepted)
                = SelectSeq(muxExpected[c], MuxAccepted)

\* The bytes the reassembler of channel c holds for the message in progress
\* on code are the first bytes of a message the device sent on that code.
C24_Partial(data, c, code) ==
    \/ data = << >>
    \/ /\ code \in MuxCodes
       /\ \E message \in {muxExpected[c][i] : i \in 1..Len(muxExpected[c])}
                            \cup {MessageBytes(muxSending[code])} :
              Len(data) < Len(message) /\ C20_IsPrefix(data, message)

\* C24: a header with fragmentCount > 1 and fragment index 0 takes exactly
\* its 32 bytes from the stream, no payload is read for it and nothing is
\* added to an accumulator or a completed queue; the loop goes on with the
\* next header: the unread bytes always start at a message header, every
\* accumulator holds only the first payload bytes of a message the device
\* sent on its code, and every completed message is one the device sent.
C24_HeaderOnlyFragmentSkipped ==
    /\ muxWire # << >> =>
          /\ Len(muxWire) >= MESSAGE_HEADER_SIZE
          /\ ReadUIntLE(muxWire, 0, 4) = MESSAGE_HEADER_MAGIC
    /\ \A c \in DOMAIN muxChannels :
          /\ C24_Partial(muxChannels[c].packetData, c, c)
          /\ C24_Partial(muxChannels[c].streamPacketData, c, -c)
          /\ \A i \in 1..Len(muxChannels[c].messages) :
                c \in MuxChannels
                  /\ \E j \in 1..Len(muxExpected[c]) :
                        muxChannels[c].messages[i] = muxExpected[c][j]

\* A message of three fragments was sent on code 2, its header-only first
\* fragment and its two payload fragments were read, and recvMessage(2)
\* returned the message whole.
C24_Witness ==
    /\ muxSending[2].fragmentCount = 3 /\ muxSending[2].next = 3
    /\ muxWire = << >>
    /\ muxRet.channel = 2 /\ muxRet.status = "returned"
    /\ muxDelivered[2] = <<MessageBytes(muxSending[2])>>
    /\ muxChannels[2].packetData = << >>

(***************************************************************************)
(* Claims about the exact-length reads                                     *)
(***************************************************************************)
C16_Stream == StreamBytes(0, rdSent)

\* C16: a read of n bytes stays suspended only while fewer than n bytes are
\* buffered and returns exactly n bytes; the rest is retained: for any split
\* of the stream into chunks, the results of the consecutive reads followed
\* by the bytes buffered are a prefix of the stream the device wrote
\* (nothing is lost, duplicated or reordered), for both engines.
C16_ReadsFollowTheStream ==
    /\ rdRet.status = "returned" => Len(rdRet.data) = rdRet.n
    /\ rdRet.status = "suspended" => Len(rdBuffer) < rdRet.n
    /\ C20_IsPrefix(rdResults \o rdBuffer, C16_Stream)

\* The instrumentation engine had no listener when a chunk was emitted, and
\* a later read returned bytes that do not continue what was read before.
C16_Witness ==
    /\ rdEngine = "dvt" /\ rdHasSocket
    /\ rdLost > 0
    /\ rdRet.status = "returned"
    /\ ~C20_IsPrefix(rdResults, C16_Stream)

\* The file conduit's reads follow the stream.
AfcReadsFollowTheStream == rdEngine = "afc" => C16_ReadsFollowTheStream

\* C15: closing the connection aborts the pending read: if close() is called
\* while an exact-length read is suspended, that read does not stay
\* suspended: it eventually rejects (or has returned with the bytes that
\* arrived before the socket closed).
C15_CloseAbortsPendingRead == rdClosedPending ~> (rdRet.status # "suspended")

\* close() of the instrumentation engine was called while a read was
\* suspended, the socket has closed since, and the read is still suspended.
C15_Witness ==
    /\ rdEngine = "dvt"
    /\ rdClosedPending /\ ~rdHasSocket
    /\ rdLine = "down"
    /\ rdRet.status = "suspended"

\* A read of the file conduit that close() found suspended is rejected or
\* has returned once the socket has closed.
AfcCloseAbortsPendingRead ==
    (rdEngine = "afc" /\ rdClosedPending) ~> (rdRet.status \in {"rejected", "returned"})


(***************************************************************************)
(* Claims about the auxiliary section                                      *)
(***************************************************************************)
C23_KnownTypes == {AUX_TYPE_OBJECT, AUX_TYPE_INT32, AUX_TYPE_INT64}

\* C23: when the auxiliary section of a received message, in the standard
\* tagged-item format, holds an item whose type is none of object (2),
\* int32 (3) and int64 (6), recvMessage raises for that message instead of
\* returning a result.
C23_UnknownTypeRaises ==
    (auxPc = "parsed" /\ \E i \in 1..Len(auxItems) : auxItems[i].type \notin C23_KnownTypes)
       => auxRet.thrown

\* An int32 item followed by an item of type 1 was received: recvMessage
\* returned the int32 alone, and the item of unknown type left a warning.
C23_Witness ==
    /\ auxPc = "parsed"
    /\ Len(auxItems) = 2
    /\ auxItems[1].type = AUX_TYPE_INT32 /\ auxItems[2].type = 1
    /\ ~auxRet.thrown /\ auxRet.warned
    /\ auxRet.values = <<AuxValue(AUX_TYPE_INT32, <<7, 0>>, << >>)>>

\* The items before the first one of unknown type are returned in order,
\* with or without their marker; nothing is raised for well-framed items.
AuxReturnsKnownPrefix ==
    (auxPc = "parsed" /\ auxItems # << >>) =>
       /\ ~auxRet.thrown
       /\ Len(auxRet.values) <= Len(auxItems)
       /\ \A i \in 1..Len(auxItems) :
             IF \A j \in 1..i : auxItems[j].type \in C23_KnownTypes
             THEN /\ i <= Len(auxRet.values)
                  /\ auxRet.values[i].type = auxItems[i].type
                  /\ IF auxItems[i].type = AUX_TYPE_OBJECT
                     THEN auxRet.values[i].bytes = <<98, 112>>
                     ELSE auxRet.values[i].n
                            = ReadLimbsLE(auxItems[i].value, 0, Len(auxItems[i].value))
             ELSE i > Len(auxRet.values)
       /\ auxRet.warned <=> \E i \in 1..Len(auxItems) : auxItems[i].type \notin C23_KnownTypes


(***************************************************************************)
(* Claims about fread, fwrite and the packets they send                    *)
(***************************************************************************)
\* The bytes of the file still asked for after the first k responses
C25_Remaining(k) == stCall.size - Len(Pushed(SubSeq(stResponses, 1, k)))

\* What the i-th packet asks for: the second 8 bytes of its payload
C25_Asked(i) == ReadUIntLE(stPackets[i].payload, 8, 8)

C25_Safe ==
    stCall.kind = "fread" =>
       /\ Len(stPackets) - Len(stResponses) \in {0, 1}
       /\ \A i \in 1..Len(stPackets) :
             /\ ReadAfcHeader(stPackets[i].header).operation = 15
             /\ Len(stPackets[i].payload) = 16
             /\ ReadUIntLE(stPackets[i].payload, 0, 8) = stCall.handle
             /\ C25_Remaining(i - 1) > 0
             /\ C25_Asked(i) = C25_Remaining(i - 1)
       /\ \A i \in 1..Len(stResponses) :
             stResponses[i].status # "SUCCESS" =>
                i = Len(stResponses) /\ stPc = "done" /\ stRet.status = "failed"
       /\ stRet.status = "returned" =>
             /\ stPc = "done"
             /\ Len(stPackets) = Len(stResponses)
             /\ stRet.data = Pushed(stResponses)
             /\ stRet.data = [i \in 1..Len(stRet.data) |-> i]
             /\ \/ C25_Remaining(Len(stResponses)) <= 0
                \/ /\ stResponses # << >>
                   /\ Len(stResponses[Len(stResponses)].data) < C25_Asked(Len(stPackets))
       /\ (stPc = "loop" /\ stResponses # << >>) =>
             Len(stResponses[Len(stResponses)].data) >= C25_Asked(Len(stPackets))

\* C25: fread(handle, size) sends READ requests one after the other, each
\* asking for exactly the bytes that remain; none is sent once nothing
\* remains; the stream ends when nothing remains or a response is shorter
\* than asked; a non-success status fails the read; the buffer returned is
\* the payloads received joined in order; and when the device answers each
\* request the call ends, whatever the size and the answers.
C25_FreadTerminates ==
    /\ []C25_Safe
    /\ (stCall.kind = "fread") ~> (stPc = "done")

\* fread of 3 bytes asked for 3, the device answered with 2, and fread
\* returned those 2 after that one request.
C25_Witness ==
    /\ stCall.kind = "fread" /\ stCall.size = 3
    /\ Len(stPackets) = 1 /\ C25_Asked(1) = 3
    /\ stPc = "done" /\ stRet = StreamOutcome("returned", <<1, 2>>)

\* The data bytes of the i-th WRITE packet: its payload after the handle
C26_Part(i) == SubSeq(stPackets[i].payload, 9, Len(stPackets[i].payload))

C26_Parts == Concat([i \in 1..Len(stPackets) |-> C26_Part(i)])

\* C26: fwrite and the write stream send the data as WRITE packets one after
\* the other, each with the 8-byte handle, then at most chunkSize bytes of
\* the data (all of the data in one packet when no chunkSize is given), and
\* the write-specific this-length; the parts of the packets joined in order
\* are the first bytes of the data, and all of it when the call returns;
\* after the first response with a non-success status no WRITE packet is
\* sent and the call has failed.
C26_WritesInOrder ==
    stCall.kind \in {"fwrite", "writeStream"} =>
       /\ Len(stPackets) - Len(stResponses) \in {0, 1}
       /\ \A i \in 1..Len(stPackets) :
             /\ ReadAfcHeader(stPackets[i].header).operation = 16
             /\ ReadAfcHeader(stPackets[i].header).thisLength = AFC_WRITE_THIS_LENGTH
             /\ Len(stPackets[i].payload) >= 8
             /\ ReadUIntLE(stPackets[i].payload, 0, 8) = stCall.handle
             /\ IF stCall.chunkSize = Omitted
                THEN i = 1 /\ C26_Part(i) = stCall.data
                ELSE Len(C26_Part(i)) <= stCall.chunkSize[1]
       /\ C20_IsPrefix(C26_Parts, stCall.data)
       /\ stRet.status = "returned" => C26_Parts = stCall.data /\ stPc = "done"
       /\ \A i \in 1..Len(stResponses) :
             stResponses[i].status # "SUCCESS" =>
                /\ i = Len(stResponses) /\ Len(stPackets) = i
                /\ stPc = "done" /\ stRet.status = "failed"

\* fwrite of 3 bytes with chunkSize 1: the first WRITE was accepted, the
\* second refused, the third byte was never sent and fwrite failed.
C26_Witness ==
    /\ stCall.kind = "fwrite" /\ stCall.data = <<11, 12, 13>> /\ stCall.chunkSize = <<1>>
    /\ Len(stPackets) = 2 /\ C26_Parts = <<11, 12>>
    /\ Len(stResponses) = 2 /\ stResponses[2].status = "PERM_DENIED"
    /\ stPc = "done" /\ stRet.status = "failed"

\* C27 as stated: in every packet header the entire-length is 40 plus the
\* payload length, except in WRITE packets, where it is the fixed override;
\* the this-length differs from the entire-length only in WRITE packets.
C27_EntireLengthOverridden ==
    \A i \in 1..Len(stPackets) :
       LET h == ReadAfcHeader(stPackets[i].header)
       IN  /\ h.entireLength = IF h.operation = 16 THEN AFC_WRITE_THIS_LENGTH
                                ELSE 40 + Len(stPackets[i].payload)
           /\ h.thisLength # h.entireLength => h.operation = 16

\* C27 amended: in every packet header the entire-length is 40 plus the
\* payload length, in WRITE packets too; the this-length equals the
\* entire-length except in WRITE packets, where it is the fixed override
\* (48): it differs from the entire-length only in WRITE packets.
C27_ThisLengthOverridden ==
    \A i \in 1..Len(stPackets) :
       LET h == ReadAfcHeader(stPackets[i].header)
       IN  /\ h.entireLength = 40 + Len(stPackets[i].payload)
           /\ h.thisLength = IF h.operation = 16 THEN 48 ELSE h.entireLength
           /\ h.packetNum = i - 1

\* A WRITE packet with two bytes of data was sent: entire-length 50,
\* this-length 48.
C27_Witness ==
    /\ stPackets # << >>
    /\ ReadAfcHeader(stPackets[1].header).operation = 16
    /\ Len(stPackets[1].payload) = 10
    /\ ReadAfcHeader(stPackets[1].header).entireLength = 50
    /\ ReadAfcHeader(stPackets[1].header).thisLength = 48


(***************************************************************************)
(* Claims about the failure list of rm                                     *)
(***************************************************************************)
\* The removals of the call that the device refused, in the order sent
C28_Refused == SelectSeq(afcLog, LAMBDA e : e.op = "REMOVE_PATH" /\ e.status # "SUCCESS")

C28_RefusedPaths == [i \in 1..Len(C28_Refused) |-> C28_Refused[i].path]

\* The call was rm of a directory that existed
C28_DirectoryCall ==
    /\ afcCall.op = "rm"
    /\ afcCall.path \in DOMAIN afcBefore
    /\ afcBefore[afcCall.path] = "S_IFDIR"

\* C28: rm of a directory removes the directory itself last. With
\* force=false, when that removal throws and a child path is already in the
\* failure list, the directory path is appended and the list is returned
\* without raising; when no child failed the error is raised. With
\* force=true the removal reports failure and the directory path is appended.
C28_FinalRemovalFailure ==
    C28_DirectoryCall =>
       LET last == afcLog[Len(afcLog)]
           children == SubSeq(C28_RefusedPaths, 1, Len(C28_RefusedPaths) - 1)
       IN  /\ last.op = "REMOVE_PATH" /\ last.path = afcCall.path
           /\ IF last.status = "SUCCESS"
              THEN afcRet = [thrown |-> FALSE, failed |-> << >>]
              ELSE IF afcCall.force \/ children # << >>
              THEN afcRet = [thrown |-> FALSE,
                             failed |-> Append(children, afcCall.path)]
              ELSE afcRet = [thrown |-> TRUE, failed |-> << >>]

\* rm(dir, false) on a directory with one child the device refuses to
\* remove: the removal of dir threw and rm returned the child and dir.
C28_Witness ==
    /\ C28_DirectoryCall /\ ~afcCall.force
    /\ afcLog[Len(afcLog)].status = "DIR_NOT_EMPTY"
    /\ ~afcRet.thrown
    /\ Len(afcRet.failed) = 2
    /\ Parent(afcRet.failed[1]) = afcCall.path
    /\ afcRet.failed[2] = afcCall.path


(***************************************************************************)
(* Claims about the service handshake of the file conduit                  *)
(***************************************************************************)
\* C29: every AFC packet is written to a socket on which the service
\* handshake completed, both replies validated as RSDCheckin then
\* StartService, whatever operations came before, one that failed during the
\* handshake included.
C29_PacketsAfterHandshake ==
    \A i \in 1..Len(afcWire) : afcWire[i].shaken

\* An operation failed in the handshake of connection 1; the next operation
\* wrote its packet, number 0, to that connection.
C29_Witness ==
    /\ afcWire # << >>
    /\ afcWire[1] = [conn |-> 1, num |-> 0, written |-> TRUE, shaken |-> FALSE]
    /\ afcSocket = [conn |-> 1, usable |-> TRUE, shaken |-> FALSE]

\* Once a handshake has completed on its connection, the packets of that
\* connection are written after it.
AfcShakenConnectionsStay ==
    \A i, j \in 1..Len(afcWire) :
       afcWire[i].conn = afcWire[j].conn => afcWire[i].shaken = afcWire[j].shaken


(***************************************************************************)
(* Claims about the read buffer across connections                         *)
(***************************************************************************)
\* C31: after close() followed by a new connect() on the same engine, no
\* byte received on the previous connection is taken for a byte of the new
\* connection's stream: the read buffer is empty when connect() has its new
\* socket, so the handshake reply is read from the new connection's bytes.
C31_BufferEmptyOnConnect == rdConnected = << >>

\* The previous connection left bytes in the buffer; the first read of the
\* new connection returned them without a byte having arrived on it.
C31_Witness ==
    /\ rdEngine = "dvt" /\ rdHasSocket
    /\ rdConnected # << >>
    /\ ~rdFlowing
    /\ rdRet.status = "returned"
    /\ rdRet.data = SubSeq(rdConnected, 1, rdRet.n)

\* The file conduit keeps its buffer with the socket: nothing of an earlier
\* connection is carried along (the model reconnects only the
\* instrumentation engine).
AfcBufferWithSocket == rdEngine = "afc" => rdConnected = << >>


(***************************************************************************)
(* Claims about the writes of overlapping operations                       *)
(***************************************************************************)
RECURSIVE C32_Frames(_)
\* The packets a reader of the socket's bytes finds: 40 bytes of header, then
\* entire-length minus 40 bytes of payload, until fewer bytes than that are left
C32_Frames(bytes) ==
    IF Len(bytes) < AFC_HEADER_SIZE THEN << >>
    ELSE LET header == ReadAfcHeader(SubSeq(bytes, 1, AFC_HEADER_SIZE))
             size == header.entireLength - AFC_HEADER_SIZE
         IN  IF header = Thrown THEN <<Thrown>>
             ELSE IF Len(bytes) < AFC_HEADER_SIZE + size THEN << >>
             ELSE <<[num |-> header.packetNum,
                     payload |-> SubSeq(bytes, AFC_HEADER_SIZE + 1,
                                        AFC_HEADER_SIZE + size)]>>
                    \o C32_Frames(SubSeq(bytes, AFC_HEADER_SIZE + size + 1, Len(bytes)))

\* C32: whatever the interleaving of the operations in flight on one
\* AfcService, the bytes written to the socket are a sequence of whole
\* packets: each 40-byte header is immediately followed by its own payload,
\* in packet-number order (the last packet may still lack bytes).
C32_WholePackets ==
    C20_IsPrefix(C32_Frames(sndSocket), sndDispatched)

\* Two operations with payloads were dispatched before a callback ran: both
\* sends have resolved and the socket got header 0, header 1, payload 0,
\* payload 1.
C32_Witness ==
    /\ sndCallbacks = << >>
    /\ sndResolved = {0, 1}
    /\ sndDispatched = <<[num |-> 0, payload |-> <<11>>], [num |-> 1, payload |-> <<11, 12>>]>>
    /\ SubSeq(sndSocket, 1, 8) = AFCMAGIC
    /\ SubSeq(sndSocket, AFC_HEADER_SIZE + 1, AFC_HEADER_SIZE + 8) = AFCMAGIC
    /\ SubSeq(sndSocket, 2 * AFC_HEADER_SIZE + 1, Len(sndSocket)) = <<11, 11, 12>>


(***************************************************************************)
(* Claims about readExact with several callers                             *)
(***************************************************************************)
\* C33: readExact of the file conduit serves overlapping calls on one socket
\* in call order: the reads that returned got consecutive segments of the
\* stream, they returned in the order the calls were made, and no call made
\* before one of them is still pending.
C33_ServedInCallOrder ==
    /\ C20_IsPrefix(Concat([i \in 1..Len(wtDelivered) |-> wtDelivered[i].data]),
                    StreamBytes(0, wtSent))
    /\ \A i, j \in 1..Len(wtDelivered) :
          i < j => wtDelivered[i].call < wtDelivered[j].call
    /\ \A i \in 1..Len(wtDelivered), k \in 1..Len(wtWaiters) :
          wtDelivered[i].call < wtWaiters[k].call

\* Call 1 waits for two bytes with one byte buffered; call 2, made later for
\* one byte, got the first byte of the stream.
C33_Witness ==
    /\ wtWaiters = <<[call |-> 1, n |-> 2]>>
    /\ wtDelivered = <<[call |-> 2, data |-> <<1>>]>>
    /\ wtRejected = {}

\* Nothing is lost or duplicated: the bytes delivered, followed by the bytes
\* buffered, are the stream emitted so far.
WaitNothingLost ==
    C20_IsPrefix(Concat([i \in 1..Len(wtDelivered) |-> wtDelivered[i].data])
                   \o wtBuffer, StreamBytes(0, wtSent))


(***************************************************************************)
(* Claims about makeChannel calls that overlap                             *)
(***************************************************************************)
\* The channel-request messages written for the channel codes in codes
C34_Requests(codes) ==
    {k \in 1..Len(sent) : /\ sent[k].selector = RequestChannelSelector
                          /\ sent[k].args[1] \in codes}

\* C34: when makeChannel is called for an identifier while another call for
\* the same identifier is still awaiting its reply, the two calls send one
\* channel-request message, allocate one channel code, and return the same
\* Channel object.
C34_OverlappingCallsShare ==
    \A j \in 1..Len(mcCalls) : \A i \in mcCalls[j].during :
       /\ mcCalls[i].channelCode = mcCalls[j].channelCode
       /\ Cardinality(C34_Requests({mcCalls[i].channelCode, mcCalls[j].channelCode})) = 1
       /\ (mcCalls[i].pc = "returned" /\ mcCalls[j].pc = "returned")
             => mcCalls[i].channel = mcCalls[j].channel

\* Two calls for svcA overlapped: both have returned, with the codes 1 and 2
\* and two different Channel objects.
C34_Witness ==
    /\ Len(mcCalls) = 2
    /\ mcCalls[2].during = {1}
    /\ mcCalls[1].identifier = "svcA" /\ mcCalls[2].identifier = "svcA"
    /\ mcCalls[1].pc = "returned" /\ mcCalls[2].pc = "returned"
    /\ mcCalls[1].channel.code = 1 /\ mcCalls[2].channel.code = 2
    /\ Cardinality(C34_Requests({1, 2})) = 2

\* Calls that do not overlap keep makeChannel idempotent: a call takes a new
\* code for an identifier whose channel an earlier call created only if it
\* began while that call was still awaiting its reply.
CallsInTurnShare ==
    \A i, j \in 1..Len(mcCalls) :
       (/\ i < j
        /\ mcCalls[i].identifier = mcCalls[j].identifier
        /\ mcCalls[i].pc = "returned")
          => i \in mcCalls[j].during


(***************************************************************************)
(* Claims about the drain after the handshake                              *)
(***************************************************************************)
RECURSIVE C35_Boundaries(_, _)
\* The numbers of bytes after which recvPacketFragments reads a header when
\* it consumes bytes: a header-only fragment is 32 bytes, any other fragment
\* is 32 bytes and the length its header gives
C35_Boundaries(bytes, consumed) ==
    {consumed} \cup
      IF Len(bytes) < MESSAGE_HEADER_SIZE THEN {}
      ELSE LET header == ParseMessageHeader(SubSeq(bytes, 1, MESSAGE_HEADER_SIZE))
               size == IF IsHeaderOnlyFragment(header) THEN MESSAGE_HEADER_SIZE
                       ELSE MESSAGE_HEADER_SIZE + header.length
           IN  IF Len(bytes) < size THEN {}
               ELSE C35_Boundaries(SubSeq(bytes, size + 1, Len(bytes)), consumed + size)

\* The bytes hold a fragment with its payload at their front, after
\* header-only fragments if any
C35_HoldsFragment(bytes) ==
    \E consumed \in C35_Boundaries(bytes, 0) :
       /\ consumed > MESSAGE_HEADER_SIZE
       /\ \E k \in 0..consumed - 1 :
             /\ k \in C35_Boundaries(bytes, 0)
             /\ ~IsHeaderOnlyFragment(
                    ParseMessageHeader(SubSeq(bytes, k + 1, k + MESSAGE_HEADER_SIZE)))

\* C35: the drain and the receive path agree on message boundaries: for
\* every sequence of well-formed messages buffered ahead of time, after
\* drainBufferedMessages the read buffer starts at a header boundary that
\* recvPacketFragments would also reach by consuming the same bytes, and it
\* holds fewer bytes than one complete message.
C35_DrainKeepsFraming ==
    drPc = "drained" =>
       /\ Len(drInput) - Len(drBuffer) \in C35_Boundaries(drInput, 0)
       /\ ~C35_HoldsFragment(drBuffer)

\* A fragmented message whose header-only fragment announces the 17 bytes of
\* the message was buffered whole: the drain stopped 49 bytes into it, in
\* the middle of the header of its second fragment.
C35_Witness ==
    /\ drPc = "drained"
    /\ Len(drInput) = 3 * MESSAGE_HEADER_SIZE + PAYLOAD_HEADER_SIZE + 1
    /\ Len(drInput) - Len(drBuffer) = MESSAGE_HEADER_SIZE + PAYLOAD_HEADER_SIZE + 1
    /\ C35_Boundaries(drInput, 0) =
          {0, MESSAGE_HEADER_SIZE, 2 * MESSAGE_HEADER_SIZE + PAYLOAD_HEADER_SIZE, Len(drInput)}

\* When every header-only fragment announces no bytes, the drain keeps the
\* framing of the receive path.
DrainKeepsPlainFraming ==
    (\A k \in C35_Boundaries(drInput, 0) :
        Len(drInput) - k >= MESSAGE_HEADER_SIZE =>
           LET header == ParseMessageHeader(SubSeq(drInput, k + 1, k + MESSAGE_HEADER_SIZE))
           IN  IsHeaderOnlyFragment(header) => header.length = 0)
      => C35_DrainKeepsFraming


(***************************************************************************)
(* Claims about the handles of the file operations                         *)
(***************************************************************************)
\* The requests of the current operation with the given opcode
C36_Requests(op) == {i \in 1..Len(afcLog) : afcLog[i].op = op}

\* The FILE_OPEN requests the device answered with a handle
C36_Opened == {i \in C36_Requests("FILE_OPEN") : afcLog[i].status = "SUCCESS"}

\* C36: in getFileContents, setFileContents and writeFromStream every handle
\* a successful FILE_OPEN returned is closed by exactly one FILE_CLOSE
\* request before the operation returns or raises, whether the read or the
\* write in between succeeded or failed: no FILE_CLOSE is sent without or
\* before the open, never more than one, and one has been sent when the
\* operation ends.
C36_HandleClosedOnce ==
    afcCall.op \in {"getFileContents", "setFileContents", "writeFromStream"} =>
       /\ Cardinality(C36_Opened) <= 1
       /\ Cardinality(C36_Requests("FILE_CLOSE")) <= Cardinality(C36_Opened)
       /\ \A i \in C36_Opened, j \in C36_Requests("FILE_CLOSE") :
             i < j /\ afcLog[j].path = afcLog[i].path
       /\ afcPc = "idle" =>
             Cardinality(C36_Requests("FILE_CLOSE")) = Cardinality(C36_Opened)

\* getFileContents has raised: the READ request failed and the handle was
\* closed by the last request of the operation.
C36_Witness ==
    /\ afcPc = "idle" /\ afcCall.op = "getFileContents"
    /\ afcRet.thrown
    /\ \E i \in C36_Requests("READ") : afcLog[i].status = "READ_ERROR"
    /\ C36_Opened # {}
    /\ C36_Requests("FILE_CLOSE") = {Len(afcLog)}


(***************************************************************************)
(* Claims about what rm leaves on the device                               *)
(***************************************************************************)
\* The paths of the failure list
C37_Failed == {afcRet.failed[i] : i \in 1..Len(afcRet.failed)}

\* C37: for every tree and every set of entries the device refuses to
\* remove (it also refuses a directory that is not empty), rm(root, true)
\* returns, and a path at or below root still exists on the device if and
\* only if it is in the failure list returned.
C37_FailureListIsWhatIsLeft ==
    (afcCall.op = "rm" /\ afcCall.force) =>
       /\ ~afcRet.thrown
       /\ \A path \in PathUniverse :
             Under(afcCall.path, path) => (path \in DOMAIN afcFs <=> path \in C37_Failed)

\* rm(d, true) on a tree where the device refuses d/f and d/s/g: the two
\* files and the directories above them are left, the rest of the tree is
\* gone, and the failure list names exactly what is left.
C37_Witness ==
    /\ afcCall.op = "rm" /\ afcCall.force /\ afcCall.path = <<"d">>
    /\ afcDenied = {<<"d", "f">>, <<"d", "s", "g">>}
    /\ DOMAIN afcBefore = PathUniverse
    /\ DOMAIN afcFs = {<<"d">>, <<"d", "f">>, <<"d", "s">>, <<"d", "s", "g">>}
    /\ C37_Failed = DOMAIN afcFs

\* C38: an auxiliary section built by buildAuxiliaryData from int32 values
\* (0 .. 2^32-1) and int64 values (0 .. 2^64-1) is parsed by parseAuxiliaryData
\* into the same values in the same order, and the size field of its 16-byte
\* header is the byte length of the items after the header
C38_AuxiliaryRoundTrip ==
    /\ (auxPc \in {"built", "parsed"} /\ auxArgs # << >>) =>
          /\ ReadUIntLE(auxBuffer, 0, 8) = MESSAGE_AUX_MAGIC
          /\ ReadUIntLE(auxBuffer, 8, 8) = Len(auxBuffer) - 16
          /\ ReadUIntLE(auxBuffer, 8, 8) > 0
    /\ (auxPc = "parsed" /\ auxItems = << >>) =>
          /\ ~auxRet.thrown /\ ~auxRet.warned
          /\ Len(auxRet.values) = Len(auxArgs)
          /\ \A i \in 1..Len(auxArgs) :
                /\ auxRet.values[i].type = auxArgs[i].type
                /\ auxRet.values[i].n = auxArgs[i].value

\* 2^32 - 1 and then 2^64 - 1 were built and parsed
C38_Witness ==
    /\ auxPc = "parsed"
    /\ auxArgs = <<[type |-> AUX_TYPE_INT32, value |-> <<65535, 65535>>],
                   [type |-> AUX_TYPE_INT64, value |-> <<65535, 65535, 65535, 65535>>]>>
    /\ Len(auxBuffer) = 44
    /\ Len(auxRet.values) = 2
    /\ auxRet.values[2].n = <<65535, 65535, 65535, 65535>>

\* decode() by a decoder that applies the same rules without the cache
C39_Plain ==
    LET st == [NewDecoder EXCEPT !.memo = FALSE]
    IN  IF Len(arObjects) = 0 THEN Out(Null, st)
        ELSE DecodeObject(arObjects, Num(C6_RootIndex), {}, arDepth, st)

\* A decodeObject call was answered from the cache
C39_CacheHit ==
    \E i \in C5_Calls :
        /\ ~C5_Log[i].open /\ ~C5_Log[i].outOfRange
        /\ \E j \in 1..(i - 1) :
              /\ C5_Log[j].kind = "call" /\ C5_Log[j].index = C5_Log[i].index
              /\ ~C5_Log[j].open
              /\ IsObjectEntry(arObjects[C5_Log[i].index.v + 1])
              /\ arObjects[C5_Log[i].index.v + 1].t # "uid"

\* C39: for every object table, acyclic or cyclic, the decoder with its
\* per-index cache returns the same decoded root value as the same decoding
\* rules applied without the cache (compared where the decode without the
\* cache ends within the call budget)
C39_MemoizationTransparent ==
    (arPc = "decoded" /\ arDepth = 0 /\ ~C39_Plain.st.diverged) =>
        arResult.val = C39_Plain.val

\* C39 case reached: in a cyclic table an entry was first decoded below an
\* entry that it refers back to, and then served from the cache to the root
C39_Witness ==
    /\ arPc = "decoded" /\ arDepth = 0 /\ arTop = Num(1)
    /\ arObjects = <<Null, Array(<<Num(2), Uid(3)>>),
                     Object(<<Field("a", Uid(3)), Field("b", Num(7)), Field("c", Str("x"))>>),
                     Array(<<Num(2), Uid(3)>>)>>
    /\ C39_CacheHit
    /\ ~C39_Plain.st.diverged
    /\ arResult.val.items[2] = JsArray(<<Null, Null>>)
    /\ C39_Plain.val.items[2].items[1] =
          JsObject(<<Field("a", Uid(3)), Field("b", Num(7)), Field("c", Str("x"))>>)

\* Where no decodeObject call and no object field met an entry that was still
\* being resolved, the cache does not change the decoded root
MemoTransparentWithoutCycles ==
    (/\ arPc = "decoded" /\ arDepth = 0 /\ ~C39_Plain.st.diverged
     /\ \A i \in C5_Calls \cup C5_Fields : ~C5_Log[i].open) =>
        arResult.val = C39_Plain.val

C40_IsWrite == stCall.kind \in {"fwrite", "writeStream"}

WriteEndsForPositiveChunks ==
    (C40_IsWrite /\ EffectiveChunkSize(stCall) >= 1) ~> (stPc = "done")

\* A WRITE packet for chunkSize 0 carries no data, and its successful
\* response leaves the offset where it was
ZeroChunkStandsStill ==
    (C40_IsWrite /\ stCall.chunkSize = <<0>>) =>
        /\ stLoop.offset = 0 /\ stLoop.end = 0
        /\ \A i \in 1..Len(stPackets) : C26_Part(i) = << >>
        /\ (stPc = "done" => (stCall.data = << >> \/ stRet.status = "failed"))

=========================================================================
